---- MODULE Spec2Model ----
(***************************************************************************)
(* A model of glacierbento's finite-volume core: the StaticGrid mesh       *)
(* tables, the MatrixAssembler and the DistributedDrainageSystem           *)
(* component.  Floating values are modelled as exact rationals <<n, d>>    *)
(* (d > 0, lowest terms); indices are 0-based and -1 is padding, as in     *)
(* the arrays of the program.                                              *)
(***************************************************************************)
EXTENDS Integers, Sequences, FiniteSets, TLC

VARIABLES grid, objs, last, asm, test, dicts, comps

vars == <<grid, objs, last, asm, test, dicts, comps>>

----------------------------------------------------------------------------
(* Values.  The program computes an expression once and names the value;  *)
(* Let does the same for the operators below.                              *)

\* F at the value of x
Let(x, F(_)) == CHOOSE r \in {F(v) : v \in {x}} : TRUE

\* F at the values of x and y
Let2(x, y, F(_, _)) == CHOOSE r \in {F(v, w) : v \in {x}, w \in {y}} : TRUE

----------------------------------------------------------------------------
(* Exact arithmetic on rationals.                                          *)

Abs(x) == IF x < 0 THEN -x ELSE x

RECURSIVE Gcd(_, _)
Gcd(a, b) == IF b = 0 THEN a ELSE Let(a % b, LAMBDA r : Gcd(b, r))

Rat(n, d) ==
    Let2(n, d, LAMBDA p, q :
        Let2(IF q < 0 THEN -1 ELSE 1, Gcd(Abs(p), Abs(q)), LAMBDA s, k :
            <<(s * p) \div k, (s * q) \div k>>))

Q(n) == <<n, 1>>

RAdd(x, y) ==
    Let2(x, y, LAMBDA a, b :
        Let(Gcd(a[2], b[2]), LAMBDA k :
            Rat(a[1] * (b[2] \div k) + b[1] * (a[2] \div k),
                (a[2] \div k) * b[2])))

RNeg(x) == Let(x, LAMBDA a : <<-a[1], a[2]>>)

RSub(x, y) == RAdd(x, RNeg(y))

RMul(x, y) ==
    Let2(x, y, LAMBDA a, b :
        IF a[1] = 0 \/ b[1] = 0 THEN <<0, 1>>
        ELSE Let2(Gcd(Abs(a[1]), b[2]), Gcd(Abs(b[1]), a[2]), LAMBDA k1, k2 :
                 <<(a[1] \div k1) * (b[1] \div k2),
                   (a[2] \div k2) * (b[2] \div k1)>>))

RDiv(x, y) == Let(y, LAMBDA b : RMul(x, Rat(b[2], b[1])))

RAbs(x) == Let(x, LAMBDA a : <<Abs(a[1]), a[2]>>)

RLe(x, y) == Let2(x, y, LAMBDA a, b : a[1] * b[2] <= b[1] * a[2])

RLt(x, y) == Let2(x, y, LAMBDA a, b : a[1] * b[2] < b[1] * a[2])

RECURSIVE RPow(_, _)
RPow(x, k) == IF k = 0 THEN Q(1) ELSE RMul(x, RPow(x, k - 1))

RECURSIVE RSum(_, _)
\* the sum of f[i] over the finite set S of indices
RSum(f, S) ==
    IF S = {} THEN Q(0)
    ELSE Let(CHOOSE j \in S : TRUE, LAMBDA i :
             Let(S \ {i}, LAMBDA rest : RAdd(f[i], RSum(f, rest))))

----------------------------------------------------------------------------
(* The mesh.  freeze_grid copies the tables of a Landlab grid into the     *)
(* StaticGrid; the grids drawn here are Landlab raster grids of `rows` by  *)
(* `cols` nodes, whose perimeter nodes are boundary nodes.                 *)

(* Landlab's codes: a node's status is 0 (core), 1 (fixed-value boundary)  *)
(* or 4 (closed boundary); a link's status is 0 (active) or 4 (inactive).  *)

\* The StaticGrid of RasterModelGrid((rows, cols), xy_spacing = (dx, dy)),
\* the nodes of the set `closed` having been set to closed boundaries.
StaticGrid(rows, cols, dx, dy, closed) ==
    LET nn == rows * cols
        nl == rows * (cols - 1) + (rows - 1) * cols
        nc == (rows - 2) * (cols - 2)
        Row(n) == n \div cols
        Col(n) == n % cols
        Interior(n) == /\ Row(n) > 0 /\ Row(n) < rows - 1
                       /\ Col(n) > 0 /\ Col(n) < cols - 1
        Horizontal(l) == (l % (2 * cols - 1)) < cols - 1
        TailOf(l) == IF Horizontal(l)
                   THEN (l \div (2 * cols - 1)) * cols + (l % (2 * cols - 1))
                   ELSE (l \div (2 * cols - 1)) * cols
                        + (l % (2 * cols - 1)) - (cols - 1)
        HeadOf(l) == IF Horizontal(l) THEN TailOf(l) + 1 ELSE TailOf(l) + cols
        HasFace(l) == Interior(TailOf(l)) \/ Interior(HeadOf(l))
        nf == Cardinality({l \in 0..(nl - 1) : HasFace(l)})
        FaceOf(l) == IF HasFace(l)
                     THEN Cardinality({k \in 0..(l - 1) : HasFace(k)})
                     ELSE -1
        East(n) == IF Col(n) < cols - 1
                   THEN Row(n) * (2 * cols - 1) + Col(n) ELSE -1
        North(n) == IF Row(n) < rows - 1
                    THEN Row(n) * (2 * cols - 1) + (cols - 1) + Col(n) ELSE -1
        West(n) == IF Col(n) > 0 THEN East(n - 1) ELSE -1
        South(n) == IF Row(n) > 0 THEN North(n - cols) ELSE -1
        Status(n) == IF Interior(n) THEN 0 ELSE IF n \in closed THEN 4 ELSE 1
        Other(l, n) == IF l = -1 THEN -1
                       ELSE IF HeadOf(l) = n THEN TailOf(l) ELSE HeadOf(l)
    IN  [ shape |-> <<rows, cols>>,
          number_of_nodes |-> nn,
          number_of_links |-> nl,
          number_of_patches |-> (rows - 1) * (cols - 1),
          number_of_corners |-> (rows - 1) * (cols - 1),
          number_of_faces |-> nf,
          number_of_cells |-> nc,
          node_x |-> [n \in 0..(nn - 1) |-> Q(Col(n) * dx)],
          node_y |-> [n \in 0..(nn - 1) |-> Q(Row(n) * dy)],
          length_of_link |->
              [l \in 0..(nl - 1) |-> IF Horizontal(l) THEN Q(dx) ELSE Q(dy)],
          length_of_face |->
              [f \in 0..(nf - 1) |->
                  LET l == CHOOSE k \in 0..(nl - 1) : FaceOf(k) = f
                  IN  IF Horizontal(l) THEN Q(dy) ELSE Q(dx)],
          cell_area_at_node |->
              [n \in 0..(nn - 1) |-> IF Interior(n) THEN Q(dx * dy) ELSE Q(0)],
          status_at_node |-> [n \in 0..(nn - 1) |-> Status(n)],
          status_at_link |->
              [l \in 0..(nl - 1) |->
                  IF /\ {Status(TailOf(l)), Status(HeadOf(l))} \subseteq {0, 1}
                     /\ 0 \in {Status(TailOf(l)), Status(HeadOf(l))}
                  THEN 0 ELSE 4],
          node_at_link_head |-> [l \in 0..(nl - 1) |-> HeadOf(l)],
          node_at_link_tail |-> [l \in 0..(nl - 1) |-> TailOf(l)],
          links_at_node |->
              [n \in 0..(nn - 1) |-> <<East(n), North(n), West(n), South(n)>>],
          link_dirs_at_node |->
              [n \in 0..(nn - 1) |->
                  << IF East(n) = -1 THEN 0 ELSE -1,
                     IF North(n) = -1 THEN 0 ELSE -1,
                     IF West(n) = -1 THEN 0 ELSE 1,
                     IF South(n) = -1 THEN 0 ELSE 1 >>],
          adjacent_nodes_at_node |->
              [n \in 0..(nn - 1) |->
                  << Other(East(n), n), Other(North(n), n),
                     Other(West(n), n), Other(South(n), n) >>],
          cell_at_node |->
              [n \in 0..(nn - 1) |->
                  IF Interior(n)
                  THEN (Row(n) - 1) * (cols - 2) + (Col(n) - 1) ELSE -1],
          node_at_cell |->
              [c \in 0..(nc - 1) |->
                  ((c \div (cols - 2)) + 1) * cols + (c % (cols - 2)) + 1],
          face_at_link |-> [l \in 0..(nl - 1) |-> FaceOf(l)],
          link_at_face |->
              [f \in 0..(nf - 1) |-> CHOOSE k \in 0..(nl - 1) : FaceOf(k) = f] ]

\* dataclasses.fields(StaticGrid): the names of the fields kept here
fields_of_StaticGrid ==
    { "number_of_nodes", "number_of_links", "number_of_patches",
      "number_of_corners", "number_of_faces", "number_of_cells", "node_x",
      "node_y", "length_of_link", "length_of_face", "cell_area_at_node",
      "status_at_node", "status_at_link", "node_at_link_head",
      "node_at_link_tail", "links_at_node", "link_dirs_at_node",
      "adjacent_nodes_at_node", "cell_at_node", "node_at_cell",
      "face_at_link", "link_at_face" }

\* freeze_grid(landlab): getattr of every field of StaticGrid on the
\* Landlab object, which raises AttributeError for an attribute it does not
\* have, then StaticGrid(**fields), whose converters (int, jnp.asarray)
\* keep every count and every array as it is passed
freeze_grid(landlab) ==
    IF fields_of_StaticGrid \subseteq DOMAIN landlab
    THEN [ result |-> "returned",
           grid |-> [name \in fields_of_StaticGrid |-> landlab[name]] ]
    ELSE [ result |-> "raised", error |-> "AttributeError" ]

Nodes == 0..(grid.number_of_nodes - 1)
Links == 0..(grid.number_of_links - 1)
Faces == 0..(grid.number_of_faces - 1)
Cells == 0..(grid.number_of_cells - 1)
\* the slots of a row of links_at_node / adjacent_nodes_at_node
Slots == 1..4

\* the array f with every element computed (an array is a value, not a
\* suspended computation)
Array(f) == f @@ <<>>

\* array[index] with a numpy index: a negative index counts from the end
Idx(array, n, i) == IF i < 0 THEN array[n + i] ELSE array[i]

----------------------------------------------------------------------------
(* The mapping operators of the StaticGrid.                                *)

\* jnp.nan
NaN == <<0, 0>>

\* x * y in floating point: a NaN operand gives NaN
NanMul(x, y) == IF x = NaN \/ y = NaN THEN NaN ELSE RMul(x, y)

\* jnp.nansum of a row of four values: NaN counts as zero
nansum(row) ==
    RSum([k \in Slots |-> IF row[k] = NaN THEN Q(0) ELSE row[k]], Slots)

\* jnp.nanmean of a row of four values: the mean of those that are not NaN
nanmean(row) ==
    Let(Cardinality({k \in Slots : row[k] # NaN}), LAMBDA count :
        IF count = 0 THEN NaN ELSE RDiv(nansum(row), Q(count)))

\* mask_links_at_node_array with the padding slots read as zero
mask_links_at_node_array_as_zero(array) ==
    Array([n \in Nodes |->
        Array([k \in Slots |->
            IF grid.links_at_node[n][k] # -1
            THEN Idx(array, grid.number_of_links, grid.links_at_node[n][k])
            ELSE Q(0)])])

mask_links_at_node_array(array) ==
    Array([n \in Nodes |->
        Array([k \in Slots |->
            IF grid.links_at_node[n][k] # -1
            THEN Idx(array, grid.number_of_links, grid.links_at_node[n][k])
            ELSE NaN])])

map_mean_of_links_to_node(array) ==
    Let(mask_links_at_node_array(array), LAMBDA masked_values :
        Array([n \in Nodes |-> nanmean(masked_values[n])]))

\* sum_at_nodes with the sign of every direction reversed
sum_at_nodes_reversed(array) ==
    Let(mask_links_at_node_array(array), LAMBDA masked_values :
        Array([n \in Nodes |->
            nansum([k \in Slots |->
                NanMul(Q(-grid.link_dirs_at_node[n][k]), masked_values[n][k])])]))

\* sum_at_nodes without the directions
sum_at_nodes_undirected(array) ==
    Let(mask_links_at_node_array(array), LAMBDA masked_values :
        Array([n \in Nodes |-> nansum(masked_values[n])]))

sum_at_nodes(array) ==
    Let(mask_links_at_node_array(array), LAMBDA masked_values :
        Array([n \in Nodes |->
            nansum([k \in Slots |->
                NanMul(Q(grid.link_dirs_at_node[n][k]), masked_values[n][k])])]))

\* calc_flux_div_at_node on the flux itself, not on flux * face length
calc_flux_div_at_node_of_flux(array) ==
    Let(sum_at_nodes(array), LAMBDA sum :
        Array([n \in Nodes |->
            IF grid.cell_area_at_node[n] # Q(0)
            THEN RDiv(RNeg(sum[n]), grid.cell_area_at_node[n])
            ELSE Q(0)]))

calc_flux_div_at_node(array) ==
    Let(Array([l \in Links |->
                 RMul(array[l], Idx(grid.length_of_face, grid.number_of_faces,
                                    grid.face_at_link[l]))]),
        LAMBDA face_flux :
    Let(sum_at_nodes(face_flux), LAMBDA sum :
        Array([n \in Nodes |->
            IF grid.cell_area_at_node[n] # Q(0)
            THEN RDiv(RNeg(sum[n]), grid.cell_area_at_node[n])
            ELSE Q(0)])))

----------------------------------------------------------------------------
(* MatrixAssembler.  An assembler A holds coeffs (on faces), forcing (on   *)
(* cells), boundary_values and is_fixed_value (on nodes).                  *)

\* get_adjacent_node as the head of the link
get_adjacent_node_as_head(cell, link) == grid.node_at_link_head[link]

get_adjacent_node(cell, link) ==
    IF grid.node_at_link_head[link] = grid.node_at_cell[cell]
    THEN grid.node_at_link_tail[link]
    ELSE grid.node_at_link_head[link]

\* add_dirichlet adding the coefficient, not its product with the boundary
\* value, to the forcing
add_dirichlet_without_value(A, cell, link, forcing, row) ==
    LET face == grid.face_at_link[link]
        coeff == Idx(A.coeffs, grid.number_of_faces, face)
    IN  [ forcing |-> [forcing EXCEPT ![cell] = RAdd(@, RNeg(coeff))],
          row |-> [row EXCEPT ![cell] = RAdd(@, RNeg(coeff))] ]

\* add_dirichlet adding to the forcing of the first cell
add_dirichlet_to_first(A, cell, link, forcing, row) ==
    LET adj_node == get_adjacent_node(cell, link)
        face == grid.face_at_link[link]
        coeff == Idx(A.coeffs, grid.number_of_faces, face)
    IN  [ forcing |->
              [forcing EXCEPT ![0] =
                  RAdd(@, RMul(RNeg(coeff), A.boundary_values[adj_node]))],
          row |-> [row EXCEPT ![cell] = RAdd(@, RNeg(coeff))] ]

\* add_dirichlet leaving the row as it is
add_dirichlet_off_diagonal(A, cell, link, forcing, row) ==
    LET adj_node == get_adjacent_node(cell, link)
        face == grid.face_at_link[link]
        coeff == Idx(A.coeffs, grid.number_of_faces, face)
    IN  [ forcing |->
              [forcing EXCEPT ![cell] =
                  RAdd(@, RMul(RNeg(coeff), A.boundary_values[adj_node]))],
          row |-> row ]

add_dirichlet(A, cell, link, forcing, row) ==
    LET adj_node == get_adjacent_node(cell, link)
        face == grid.face_at_link[link]
        coeff == Idx(A.coeffs, grid.number_of_faces, face)
    IN  [ forcing |->
              [forcing EXCEPT ![cell] =
                  RAdd(@, RMul(RNeg(coeff), A.boundary_values[adj_node]))],
          row |-> [row EXCEPT ![cell] = RAdd(@, RNeg(coeff))] ]

\* add_interior writing the entry of the neighbour's column only from the
\* tail end of the link
add_interior_from_tail(A, cell, link, forcing, row) ==
    LET adj_node == get_adjacent_node(cell, link)
        adj_cell == grid.cell_at_node[adj_node]
        face == grid.face_at_link[link]
        coeff == Idx(A.coeffs, grid.number_of_faces, face)
        row1 == [row EXCEPT ![cell] = RAdd(@, RNeg(coeff))]
    IN  [ forcing |-> forcing,
          row |-> IF grid.node_at_link_tail[link] = grid.node_at_cell[cell]
                  THEN [row1 EXCEPT ![adj_cell] = RAdd(@, coeff)]
                  ELSE row1 ]

add_interior(A, cell, link, forcing, row) ==
    LET adj_node == get_adjacent_node(cell, link)
        adj_cell == grid.cell_at_node[adj_node]
        face == grid.face_at_link[link]
        coeff == Idx(A.coeffs, grid.number_of_faces, face)
        row1 == [row EXCEPT ![cell] = RAdd(@, RNeg(coeff))]
    IN  [ forcing |-> forcing,
          row |-> [row1 EXCEPT ![adj_cell] = RAdd(@, coeff)] ]

\* add_valid treating every boundary neighbour as a fixed-value one
add_valid_unflagged(A, cell, link, forcing, row) ==
    IF grid.status_at_node[get_adjacent_node(cell, link)] = 0
    THEN add_interior(A, cell, link, forcing, row)
    ELSE add_dirichlet(A, cell, link, forcing, row)

add_valid(A, cell, link, forcing, row) ==
    IF grid.status_at_node[get_adjacent_node(cell, link)] = 0
    THEN add_interior(A, cell, link, forcing, row)
    ELSE IF A.is_fixed_value[get_adjacent_node(cell, link)] = 1
         THEN add_dirichlet(A, cell, link, forcing, row)
         ELSE [forcing |-> forcing, row |-> row]

RECURSIVE assemble_links(_, _, _, _, _)
\* the loop of assemble_row over the slots k.. of links_at_node[node]
assemble_links(A, cell, k, forcing, row) ==
    IF k > 4 THEN [forcing |-> forcing, row |-> row]
    ELSE LET link == grid.links_at_node[grid.node_at_cell[cell]][k]
         IN  Let(IF link = -1
                 THEN [forcing |-> forcing, row |-> row]
                 ELSE add_valid(A, cell, link, forcing, row),
                 LAMBDA next :
                     assemble_links(A, cell, k + 1, next.forcing, next.row))

assemble_row(A, forcing, cell) ==
    assemble_links(A, cell, 1, forcing, [c \in Cells |-> Q(0)])

RECURSIVE scan_rows(_, _, _, _)
\* jax.lax.scan(assemble_row, forcing, arange(number_of_cells)) from cell on
scan_rows(A, forcing, matrix, cell) ==
    IF cell >= grid.number_of_cells
    THEN [forcing |-> forcing, matrix |-> matrix]
    ELSE Let2(assemble_row(A, forcing, cell), matrix, LAMBDA r, m :
             scan_rows(A, r.forcing, [m EXCEPT ![cell] = r.row], cell + 1))

assemble_matrix(A) ==
    scan_rows(A, A.forcing, [c \in Cells |-> [d \in Cells |-> Q(0)]], 0)

----------------------------------------------------------------------------
(* DistributedDrainageSystem.  A component c holds fields (arrays on       *)
(* nodes), params and boundary_tags; every operator below is a method of   *)
(* the component.                                                          *)

\* StaticGrid.build_link_between_nodes_array: the link that joins nodes i
\* and j, -1 when there is none
link_between_nodes(i, j) ==
    IF \E l \in Links : {grid.node_at_link_head[l], grid.node_at_link_tail[l]} = {i, j}
    THEN CHOOSE l \in Links :
            {grid.node_at_link_head[l], grid.node_at_link_tail[l]} = {i, j}
    ELSE -1

\* bed_elevation * water_density * gravity
base_potential(c) ==
    [n \in Nodes |->
        RMul(RMul(c.fields.bed_elevation[n], c.params.water_density),
             c.params.gravity)]

RECURSIVE min_over(_, _)
\* jnp.min of the values v[n], n in S, over a non-empty set S
min_over(v, S) ==
    Let(CHOOSE m \in S : TRUE, LAMBDA n :
        IF S = {n} THEN v[n]
        ELSE Let2(v[n], min_over(v, S \ {n}), LAMBDA first, rest :
                 IF RLe(first, rest) THEN first ELSE rest))

\* the comparison of le_min_adj_potential made strict
lt_min_adj_potential(potential, n) ==
    LET adj == {grid.adjacent_nodes_at_node[n][k] : k \in Slots} \ {-1}
    IN  IF adj = {} THEN TRUE ELSE RLt(potential[n], min_over(potential, adj))

\* potential[n] <= min over the row of adjacent_nodes_at_node, the padding
\* slots counting as +inf
le_min_adj_potential(potential, n) ==
    LET adj == {grid.adjacent_nodes_at_node[n][k] : k \in Slots} \ {-1}
    IN  IF adj = {} THEN TRUE ELSE RLe(potential[n], min_over(potential, adj))

\* _set_inflow_outflow with the two flags exchanged
_set_inflow_outflow_exchanged(potential) ==
    [n \in Nodes |->
        LET boundary == IF grid.status_at_node[n] > 0 THEN 1 ELSE 0
        IN  IF le_min_adj_potential(potential, n)
            THEN 1 * boundary ELSE -1 * boundary]

_set_inflow_outflow(potential) ==
    [n \in Nodes |->
        LET boundary == IF grid.status_at_node[n] > 0 THEN 1 ELSE 0
        IN  IF le_min_adj_potential(potential, n)
            THEN -1 * boundary ELSE 1 * boundary]

\* calc_effective_pressure of the potential that the component holds
calc_effective_pressure_of_held(c, hydraulic_potential) ==
    [n \in Nodes |->
        LET H == c.fields.ice_thickness[n]
            b == c.fields.bed_elevation[n]
            overburden == RMul(RMul(c.params.ice_density, c.params.gravity), H)
            water_pressure ==
                RSub(c.fields.hydraulic_potential[n],
                     RMul(RMul(c.params.water_density, c.params.gravity), b))
        IN  RSub(overburden, water_pressure)]

calc_effective_pressure(c, hydraulic_potential) ==
    [n \in Nodes |->
        LET H == c.fields.ice_thickness[n]
            b == c.fields.bed_elevation[n]
            overburden == RMul(RMul(c.params.ice_density, c.params.gravity), H)
            water_pressure ==
                RSub(hydraulic_potential[n],
                     RMul(RMul(c.params.water_density, c.params.gravity), b))
        IN  RSub(overburden, water_pressure)]

\* _calc_dhdt at one node, for the effective pressure N there
dhdt_at(c, N, n, h) ==
    LET ub == c.fields.sliding_velocity[n]
        opening ==
            RMul(RDiv(RAbs(ub), c.params.cavity_spacing),
                 IF RLe(c.params.bed_bump_height, h) THEN Q(0)
                 ELSE RSub(c.params.bed_bump_height, h))
        closure ==
            RMul(RMul(RMul(RMul(
                RDiv(Q(2), RPow(Q(c.params.ice_flow_n), c.params.ice_flow_n)),
                c.params.ice_flow_coeff),
                h),
                RPow(RAbs(N), c.params.ice_flow_n - 1)),
                N)
    IN  RSub(opening, closure)

_calc_dhdt(c, hydraulic_potential, sheet_flow_height) ==
    LET N == calc_effective_pressure(c, hydraulic_potential)
    IN  [n \in Nodes |-> dhdt_at(c, N[n], n, sheet_flow_height[n])]

calc_grad_at_link(array) ==
    [l \in Links |->
        RDiv(RSub(array[grid.node_at_link_head[l]],
                  array[grid.node_at_link_tail[l]]),
             grid.length_of_link[l])]

map_mean_of_link_nodes_to_link(array) ==
    [l \in Links |->
        RMul(Rat(1, 2), RAdd(array[grid.node_at_link_head[l]],
                             array[grid.node_at_link_tail[l]]))]

calc_discharge(c, hydraulic_potential, sheet_flow_height) ==
    LET grad_phi == calc_grad_at_link(hydraulic_potential)
        h_at_links == map_mean_of_link_nodes_to_link(sheet_flow_height)
    IN  [l \in Links |->
            RMul(RMul(RMul(RNeg(c.params.sheet_conductivity),
                           RPow(h_at_links[l], c.params.flow_exp_a)),
                      RPow(RAbs(grad_phi[l]), c.params.flow_exp_b)),
                 grad_phi[l])]

_get_coeffs_at_link(c, cell, j, hydraulic_potential, sheet_flow_height) ==
    LET i == grid.node_at_cell[cell]
        link == link_between_nodes(i, j)
        link_len == grid.length_of_link[link]
        face_len == grid.length_of_face[grid.face_at_link[link]]
        sheet_flux ==
            RDiv(RMul(calc_discharge(c, hydraulic_potential,
                                     sheet_flow_height)[link], face_len),
                 link_len)
    IN  IF grid.status_at_link[link] = 0 THEN sheet_flux ELSE Q(0)

RECURSIVE assign_coeffs(_, _, _, _, _)
\* the scan of assign_coeffs over the slots jidx.. of adj_nodes
assign_coeffs(cell, adj_nodes, coeffs, row, jidx) ==
    IF jidx > 4 THEN row
    ELSE LET j == adj_nodes[jidx]
             jcell == Idx(grid.cell_at_node, grid.number_of_nodes, j)
             diag == [row EXCEPT ![cell] = RAdd(@, RNeg(coeffs[jidx]))]
             both == [[row EXCEPT ![jcell] = RAdd(@, coeffs[jidx])]
                          EXCEPT ![cell] = RAdd(@, RNeg(coeffs[jidx]))]
         IN  Let(IF jcell # -1 THEN both ELSE diag, LAMBDA next :
                 assign_coeffs(cell, adj_nodes, coeffs, next, jidx + 1))

_assemble_row(c, cell, hydraulic_potential, sheet_flow_height) ==
    LET i == grid.node_at_cell[cell]
        adj_nodes == grid.adjacent_nodes_at_node[i]
        base == base_potential(c)
    IN  Let(Array([k \in Slots |->
                     IF adj_nodes[k] # -1
                     THEN _get_coeffs_at_link(c, cell, adj_nodes[k],
                                              hydraulic_potential,
                                              sheet_flow_height)
                     ELSE Q(0)]),
            LAMBDA coeffs :
                LET added_forcings ==
                        [k \in Slots |->
                            IF /\ adj_nodes[k] # -1
                               /\ c.boundary_tags[adj_nodes[k]] = -1
                            THEN RMul(RNeg(coeffs[k]), base[adj_nodes[k]])
                            ELSE Q(0)]
                IN  [ forcing |-> RSum(added_forcings, Slots),
                      row |-> assign_coeffs(cell, adj_nodes, coeffs,
                                            [d \in Cells |-> Q(0)], 1) ])

_build_forcing_vector(c, hydraulic_potential, sheet_flow_height) ==
    LET dhdt == _calc_dhdt(c, hydraulic_potential, sheet_flow_height)
        m == c.fields.melt_input
    IN  Array([cell \in Cells |->
                  RSub(m[grid.node_at_cell[cell]], dhdt[grid.node_at_cell[cell]])])

_assemble_linear_system(c, hydraulic_potential, sheet_flow_height) ==
    Let2(Array([cell \in Cells |->
                  _assemble_row(c, cell, hydraulic_potential, sheet_flow_height)]),
         _build_forcing_vector(c, hydraulic_potential, sheet_flow_height),
         LAMBDA rows, base_forcing :
             [ forcing |-> Array([cell \in Cells |->
                              RAdd(rows[cell].forcing, base_forcing[cell])]),
               matrix |-> Array([cell \in Cells |-> rows[cell].row]) ])

\* the sequence s without its p-th element
Without(s, p) == [k \in 1..(Len(s) - 1) |-> IF k < p THEN s[k] ELSE s[k + 1]]

RECURSIVE Det(_, _, _)
\* the determinant of the submatrix of M on the rows rs and the columns cs
\* (sequences of indices of equal length), expanded along its first row
Det(M, rs, cs) ==
    IF Len(rs) = 0 THEN Q(1)
    ELSE RSum([p \in 1..Len(cs) |->
                  IF M[rs[1]][cs[p]] = Q(0) THEN Q(0)
                  ELSE RMul(RMul(IF p % 2 = 1 THEN Q(1) ELSE Q(-1),
                                 M[rs[1]][cs[p]]),
                            Det(M, Tail(rs), Without(cs, p)))],
              1..Len(cs))

\* lx.linear_solve(lx.MatrixLinearOperator(A), b): the solution of A x = b
\* when A is invertible; on a singular A the solve is attempted and fails
linear_solve(A, b) ==
    Let(Array([k \in 1..grid.number_of_cells |-> k - 1]), LAMBDA order :
        Let(Det(A, order, order), LAMBDA d :
            IF d = Q(0) THEN [ok |-> FALSE, value |-> <<>>]
            ELSE [ ok |-> TRUE,
                   value |->
                       Array([c \in Cells |->
                           RDiv(Det(Array([r \in Cells |->
                                              [A[r] EXCEPT ![c] = b[r]]]),
                                    order, order), d)]) ]))

\* scatter_to_nodes leaving the nodes without a cell at the potential the
\* component holds
scatter_keeping_potential(c, solution) ==
    Array([n \in Nodes |->
              IF grid.cell_at_node[n] # -1
              THEN solution[grid.cell_at_node[n]]
              ELSE c.fields.hydraulic_potential[n]])

\* the node values of a cell solution: solution[cell_at_node] where the
\* node has a cell, the hydrostatic base potential elsewhere
scatter_to_nodes(c, solution) ==
    LET base == base_potential(c)
    IN  Array([n \in Nodes |->
                  IF grid.cell_at_node[n] # -1
                  THEN solution[grid.cell_at_node[n]] ELSE base[n]])

\* _solve_for_potential assembling the system with the thickness that the
\* component holds
_solve_for_potential_of_held(c, hydraulic_potential, sheet_flow_height) ==
    Let(_assemble_linear_system(c, hydraulic_potential,
                                c.fields.sheet_flow_height),
        LAMBDA sys :
            Let(linear_solve(sys.matrix, sys.forcing), LAMBDA solution :
                [ ok |-> solution.ok,
                  system |-> sys,
                  solution |-> solution.value,
                  value |-> IF solution.ok
                            THEN scatter_to_nodes(c, solution.value)
                            ELSE <<>> ]))

\* `system` is the linear system (b, A) that was assembled and solved
_solve_for_potential(c, hydraulic_potential, sheet_flow_height) ==
    Let(_assemble_linear_system(c, hydraulic_potential, sheet_flow_height),
        LAMBDA sys :
            Let(linear_solve(sys.matrix, sys.forcing), LAMBDA solution :
                [ ok |-> solution.ok,
                  system |-> sys,
                  solution |-> solution.value,
                  value |-> IF solution.ok
                            THEN scatter_to_nodes(c, solution.value)
                            ELSE <<>> ]))

\* rtol = atol = 1e-6 of optx.Newton, as 1 / tol_inverse
tol_inverse == 1000000

\* the iteration budget of optx.root_find (its default max_steps)
max_steps == 256

\* |x| < 1e-6, exactly
below_tol(x) == Let(x, LAMBDA a : Abs(a[1]) <= (a[2] - 1) \div tol_inverse)

\* the residual of the implicit update at node n:
\* h - sheet_flow_height - dt * _calc_dhdt(hydraulic_potential, h)
residual_at(c, dt, N, h0, n, h) ==
    RSub(RSub(h, h0[n]), RMul(Q(dt), dhdt_at(c, N[n], n, h)))

\* its derivative in h at node n (the Jacobian is diagonal): the opening
\* term has slope -|ub| / cavity_spacing below bed_bump_height, 0 above
jacobian_at(c, dt, N, n, h) ==
    LET ub == c.fields.sliding_velocity[n]
        d_opening ==
            IF RLe(c.params.bed_bump_height, h) THEN Q(0)
            ELSE RNeg(RDiv(RAbs(ub), c.params.cavity_spacing))
        d_closure ==
            RMul(RMul(RMul(
                RDiv(Q(2), RPow(Q(c.params.ice_flow_n), c.params.ice_flow_n)),
                c.params.ice_flow_coeff),
                RPow(RAbs(N[n]), c.params.ice_flow_n - 1)),
                N[n])
    IN  RSub(Q(1), RMul(Q(dt), RSub(d_opening, d_closure)))

\* one Newton step of the root-find from the iterate s.value (nothing once
\* the solve is done): the solve is done, successfully, when the step and
\* the residual are within tolerance, and done, with an error, when the
\* Jacobian cannot be inverted
newton_step(c, dt, N, h0, s) ==
    IF s.done THEN s
    ELSE IF \E n \in Nodes : jacobian_at(c, dt, N, n, s.value[n]) = Q(0)
    THEN [done |-> TRUE, ok |-> FALSE, value |-> s.value, steps |-> s.steps + 1]
    ELSE Let(Array([n \in Nodes |->
                      RDiv(residual_at(c, dt, N, h0, n, s.value[n]),
                           jacobian_at(c, dt, N, n, s.value[n]))]),
             LAMBDA diff :
        Let(Array([n \in Nodes |-> RSub(s.value[n], diff[n])]),
             LAMBDA new_y :
        Let(\A n \in Nodes :
                /\ below_tol(RDiv(diff[n], RAdd(Q(1), RAbs(new_y[n]))))
                /\ below_tol(residual_at(c, dt, N, h0, n, new_y[n])),
             LAMBDA converged :
                 [ done |-> converged, ok |-> converged,
                   value |-> new_y, steps |-> s.steps + 1 ])))

RECURSIVE iterate(_, _, _, _, _, _)
\* the loop of the root-find: k Newton steps from s, as the first half of
\* them followed by the rest
iterate(c, dt, N, h0, s, k) ==
    IF k = 0 \/ s.done THEN s
    ELSE IF k = 1 THEN newton_step(c, dt, N, h0, s)
    ELSE Let(iterate(c, dt, N, h0, s, k \div 2), LAMBDA m :
             iterate(c, dt, N, h0, m, k - (k \div 2)))

\* root_find with throw = False: the last iterate is the result, however
\* the solve ended
root_find_no_throw(c, dt, hydraulic_potential, sheet_flow_height) ==
    Let(Array(calc_effective_pressure(c, hydraulic_potential)), LAMBDA N :
        Let(iterate(c, dt, N, sheet_flow_height,
                    [ done |-> FALSE, ok |-> FALSE,
                      value |-> sheet_flow_height, steps |-> 0 ],
                    max_steps),
            LAMBDA s : [ok |-> TRUE, value |-> s.value, steps |-> s.steps]))

\* optx.root_find(residual, optx.Newton(rtol, atol), sheet_flow_height):
\* Newton steps from sheet_flow_height until the solve is done, max_steps
\* of them at most; a solve that is not done by then is an error too
root_find(c, dt, hydraulic_potential, sheet_flow_height) ==
    Let(Array(calc_effective_pressure(c, hydraulic_potential)), LAMBDA N :
        Let(iterate(c, dt, N, sheet_flow_height,
                    [ done |-> FALSE, ok |-> FALSE,
                      value |-> sheet_flow_height, steps |-> 0 ],
                    max_steps),
            LAMBDA s : [ok |-> s.done /\ s.ok, value |-> s.value, steps |-> s.steps]))

\* mask_thickness without the mask
mask_nothing(c, value) == value

\* mask_thickness leaving the thickness at the nodes flagged as inflow
mask_thickness_of_outflow(c, value) ==
    Array([n \in Nodes |-> IF c.boundary_tags[n] = -1 THEN Q(0) ELSE value[n]])

\* jnp.where(boundary_tags == 0, solution.value, 0.0)
mask_thickness(c, value) ==
    Array([n \in Nodes |-> IF c.boundary_tags[n] = 0 THEN value[n] ELSE Q(0)])

_update_sheet_flow_height(c, dt, hydraulic_potential, sheet_flow_height) ==
    Let(root_find(c, dt, hydraulic_potential, sheet_flow_height),
        LAMBDA solution :
            [ ok |-> solution.ok,
              steps |-> solution.steps,
              root |-> solution.value,
              value |-> IF solution.ok THEN mask_thickness(c, solution.value)
                        ELSE <<>> ])

\* tree_at as an assignment to the fields of the receiver, which is returned
tree_at_in_place(c, updated_potential, updated_thickness) ==
    LET out == [c EXCEPT !.fields.hydraulic_potential = updated_potential,
                         !.fields.sheet_flow_height = updated_thickness]
    IN  [self |-> out, out |-> out]

\* eqx.tree_at(where, self, replace): `self` as the call leaves the
\* receiver, `out` the copy of c it returns with the two fields replaced
tree_at(c, updated_potential, updated_thickness) ==
    [ self |-> c,
      out |-> [c EXCEPT !.fields.hydraulic_potential = updated_potential,
                        !.fields.sheet_flow_height = updated_thickness] ]

\* run_one_step(dt) on component c: what the call did and how it ended.
\* `self` is the receiver after the call, `component` the returned object.
run_one_step(c, dt) ==
    Let(_update_sheet_flow_height(c, dt, c.fields.hydraulic_potential,
                                  c.fields.sheet_flow_height),
        LAMBDA thickness :
            LET raised(error, solve_attempted, system) ==
                    [ result |-> "raised", error |-> error,
                      newton_steps |-> thickness.steps, root |-> thickness.root,
                      tags_used |-> c.boundary_tags,
                      solve_attempted |-> solve_attempted, system |-> system,
                      solution |-> <<>>,
                      self |-> c, component |-> <<>> ]
            IN  IF ~thickness.ok THEN raised("root_find", FALSE, <<>>)
                ELSE Let(_solve_for_potential(c, c.fields.hydraulic_potential,
                                              thickness.value),
                         LAMBDA potential :
                    IF ~potential.ok
                    THEN raised("linear_solve", TRUE, potential.system)
                    ELSE Let(tree_at(c, potential.value, thickness.value),
                             LAMBDA updated :
                        [ result |-> "returned", error |-> "none",
                          newton_steps |-> thickness.steps,
                          root |-> thickness.root,
                          tags_used |-> c.boundary_tags,
                          solve_attempted |-> TRUE,
                          system |-> potential.system,
                          solution |-> potential.solution,
                          self |-> updated.self,
                          component |-> updated.out ])))

\* DistributedDrainageSystem.__init__
DistributedDrainageSystem(fields, params) ==
    LET c == [fields |-> fields, params |-> params, boundary_tags |-> <<>>]
    IN  [c EXCEPT !.boundary_tags = Array(_set_inflow_outflow(base_potential(c)))]

----------------------------------------------------------------------------
(* Components: their fields and their parameters.  A dictionary is an      *)
(* object: `dicts` holds the dictionaries that exist, a component holds    *)
(* the index of its parameter dictionary.  A parameter value is the        *)
(* sequence of the literals it was computed from; the arrays of the        *)
(* fields are modelled by their lengths.                                   *)

\* the number of elements of the mesh at a location
Count(location) ==
    CASE location = "node" -> grid.number_of_nodes
      [] location = "link" -> grid.number_of_links
      [] location = "patch" -> grid.number_of_patches
      [] location = "corner" -> grid.number_of_corners
      [] location = "face" -> grid.number_of_faces
      [] location = "cell" -> grid.number_of_cells

\* check_location(grid, array) for an array of the given length
check_location(length) ==
    IF length = grid.number_of_nodes THEN [ok |-> TRUE, location |-> "node"]
    ELSE IF length = grid.number_of_links THEN [ok |-> TRUE, location |-> "link"]
    ELSE IF length = grid.number_of_patches THEN [ok |-> TRUE, location |-> "patch"]
    ELSE IF length = grid.number_of_corners THEN [ok |-> TRUE, location |-> "corner"]
    ELSE IF length = grid.number_of_faces THEN [ok |-> TRUE, location |-> "face"]
    ELSE IF length = grid.number_of_cells THEN [ok |-> TRUE, location |-> "cell"]
    ELSE [ok |-> FALSE, location |-> ""]

\* a Field object of the given location and array length
Field(location, length) ==
    [is_field |-> TRUE, location |-> location, length |-> length]

\* an array, not a Field, of the given length
BareArray(length) == [is_field |-> FALSE, location |-> "", length |-> length]

\* the parameter dictionary d after d[key] = value for every key of params
Updated(d, params) ==
    [k \in DOMAIN d \cup DOMAIN params |->
        IF k \in DOMAIN params THEN params[k] ELSE d[k]]

\* a failed construction
Raised(error) ==
    [result |-> "raised", error |-> error, component |-> <<>>, dicts |-> dicts]

\* Component.__init__ without the comparison of locations
Component_unlocated(fields, params, required_fields, default_parameters) ==
    LET _fields ==
            [var \in DOMAIN fields |->
                IF fields[var].is_field THEN fields[var]
                ELSE Field(check_location(fields[var].length).location,
                           fields[var].length)]
    IN  IF \E var \in DOMAIN fields :
              ~fields[var].is_field /\ ~check_location(fields[var].length).ok
        THEN Raised("Array size does not match any grid elements.")
        ELSE IF \E field \in DOMAIN required_fields : field \notin DOMAIN _fields
        THEN Raised("Field is required but not provided.")
        ELSE [ result |-> "returned", error |-> "",
               component |->
                   [ _fields |-> _fields, required_fields |-> required_fields,
                     _params |-> default_parameters ],
               dicts |-> [dicts EXCEPT ![default_parameters] = Updated(@, params)] ]

\* Component.__init__(grid, fields, params, required_fields,
\* default_parameters) of components/component.py, default_parameters
\* being the index of the dictionary passed: the component built and the
\* dictionaries after the call, or the error raised
Component(fields, params, required_fields, default_parameters) ==
    LET _fields ==
            [var \in DOMAIN fields |->
                IF fields[var].is_field THEN fields[var]
                ELSE Field(check_location(fields[var].length).location,
                           fields[var].length)]
    IN  IF \E var \in DOMAIN fields :
              ~fields[var].is_field /\ ~check_location(fields[var].length).ok
        THEN Raised("Array size does not match any grid elements.")
        ELSE IF \E field \in DOMAIN required_fields : field \notin DOMAIN _fields
        THEN Raised("Field is required but not provided.")
        ELSE IF \E field \in DOMAIN required_fields :
                   _fields[field].location # required_fields[field]
        THEN Raised("Field must be defined on grid element.")
        ELSE [ result |-> "returned", error |-> "",
               component |->
                   [ _fields |-> _fields, required_fields |-> required_fields,
                     _params |-> default_parameters ],
               dicts |-> [dicts EXCEPT ![default_parameters] = Updated(@, params)] ]

\* the required_fields of DistributedDrainageSystem.__init__
required_fields ==
    [ ice_thickness |-> "node", bed_elevation |-> "node",
      sliding_velocity |-> "node", melt_input |-> "node",
      hydraulic_potential |-> "node", sheet_flow_height |-> "node" ]

\* the default_parameters of DistributedDrainageSystem.__init__, as
\* written
default_parameters ==
    [ gravity |-> <<"9.81">>, ice_density |-> <<"917">>,
      water_density |-> <<"1000">>, cavity_spacing |-> <<"10">>,
      bed_bump_height |-> <<"0.5">>, ice_flow_n |-> <<"3">>,
      ice_flow_coeff |-> <<"2.4e-24">>, sheet_conductivity |-> <<"0.05">>,
      flow_exp_a |-> <<"3">>, flow_exp_b |-> <<"2">> ]

\* the process models built on the Component of core.py
Models ==
    {"FrozenFringe", "DispersedLayer", "ShallowIceApproximation",
     "SimpleGlacialEroder"}

\* the default value of the `params` argument of <class>.__init__, as
\* written
params_of(class) ==
    CASE class = "FrozenFringe" ->
             [ surface_energy |-> <<"0.034">>, pore_throat_radius |-> <<"1e-6">>,
               melt_temperature |-> <<"273">>, ice_density |-> <<"917">>,
               water_density |-> <<"1000">>, water_viscosity |-> <<"1.8e-3">>,
               latent_heat |-> <<"3.34e5">>, ice_conductivity |-> <<"2.0">>,
               till_porosity |-> <<"0.35">>, till_permeability |-> <<"4.1e-17">>,
               till_grain_radius |-> <<"1.5e-4">>, film_thickness |-> <<"1e-8">>,
               alpha |-> <<"3.1">>, beta |-> <<"0.53">>, min_fringe |-> <<"1e-3">> ]
      [] class = "DispersedLayer" ->
             [ melt_temperature |-> <<"273.15">>, ice_density |-> <<"917">>,
               ice_conductivity |-> <<"2.0">>, latent_heat |-> <<"3.34e5">>,
               critical_depth |-> <<"10.0">> ]
      [] class = "ShallowIceApproximation" ->
             [ ice_flow_coefficient |-> <<"2.4e-24">>, glens_n |-> <<"3">>,
               ice_density |-> <<"917">>, gravity |-> <<"9.81">> ]
      [] class = "SimpleGlacialEroder" ->
             [ rate_coefficient |-> <<"2.7e-7 * 31556926">>,
               sliding_exponent |-> <<"2">> ]

\* the dictionaries that the definitions of the classes create: the
\* default_parameters of DistributedDrainageSystem.__init__ first, then
\* the default `params` of each process model
DictOf(class) ==
    CASE class = "DistributedDrainageSystem" -> 1
      [] class = "FrozenFringe" -> 2
      [] class = "DispersedLayer" -> 3
      [] class = "ShallowIceApproximation" -> 4
      [] class = "SimpleGlacialEroder" -> 5

Definitions ==
    << default_parameters, params_of("FrozenFringe"), params_of("DispersedLayer"),
       params_of("ShallowIceApproximation"), params_of("SimpleGlacialEroder") >>

\* DistributedDrainageSystem(grid, fields, params) as to the locations and
\* lengths of the fields and the parameters: Component.__init__, then the
\* classification of the boundary on the bed elevation, whose comparison
\* with the minimum over the neighbours (one value a node) needs an array
\* of one value a node, or of one value
DistributedDrainageSystem_of(fields, params) ==
    Let(Component(fields, params, required_fields,
                  DictOf("DistributedDrainageSystem")),
        LAMBDA made :
            IF made.result = "raised" THEN made
            ELSE IF made.component._fields.bed_elevation.length
                        \notin {grid.number_of_nodes, 1}
            THEN [ result |-> "raised",
                   error |-> "Incompatible shapes for broadcasting.",
                   component |-> <<>>, dicts |-> made.dicts ]
            ELSE [made EXCEPT !.component =
                     [ class |-> "DistributedDrainageSystem",
                       _fields |-> made.component._fields,
                       required_fields |-> made.component.required_fields,
                       _params |-> made.component._params ]])

input_fields(class) ==
    CASE class = "FrozenFringe" ->
             [ ice_thickness |-> "node", basal_melt_rate |-> "node",
               till_thickness |-> "node", fringe_thickness |-> "node" ]
      [] class = "DispersedLayer" ->
             [ theta |-> "node", base_temperature |-> "node",
               dispersed_thickness |-> "node" ]
      [] class = "ShallowIceApproximation" ->
             [ice_thickness |-> "node", surface_elevation |-> "node"]
      [] class = "SimpleGlacialEroder" ->
             [sliding_velocity |-> "node", till_thickness |-> "node"]

output_fields(class) ==
    CASE class = "FrozenFringe" ->
             [ fringe_thickness |-> "node", fringe_saturation |-> "node",
               fringe_undercooling |-> "node", till_thickness |-> "node" ]
      [] class = "DispersedLayer" ->
             [ dispersed_thickness |-> "node", temperature_gradient |-> "node",
               regelation_rate |-> "node" ]
      [] class = "ShallowIceApproximation" -> [deformation_velocity |-> "link"]
      [] class = "SimpleGlacialEroder" ->
             [erosion_rate |-> "node", till_thickness |-> "node"]

\* <class>(grid, params), params being the index of the dictionary passed
\* (that of the default when none is passed) among the dictionaries dicts_
\* that exist at the call: the component built and the dictionaries after
\* the call.  FrozenFringe.__init__ stores two derived
\* parameters in the dictionary.
ProcessModelOn(dicts_, class, params) ==
    [ result |-> "returned",
      component |->
          [ class |-> class, input_fields |-> input_fields(class),
            output_fields |-> output_fields(class), params |-> params ],
      dicts |->
          IF class = "FrozenFringe"
          THEN LET d == dicts_[params]
                   threshold_pressure ==
                       <<"2 *">> \o d.surface_energy \o <<"/">>
                           \o d.pore_throat_radius
                   with_threshold ==
                       Updated(d, [threshold_pressure |-> threshold_pressure])
                   base_temperature ==
                       d.melt_temperature \o <<"- ((">> \o threshold_pressure
                           \o <<"*">> \o d.melt_temperature \o <<") / (">>
                           \o d.ice_density \o <<"*">> \o d.latent_heat
                           \o <<"))">>
               IN  [dicts_ EXCEPT ![params] =
                       Updated(with_threshold,
                               [base_temperature |-> base_temperature])]
          ELSE dicts_ ]

\* Component.update_param of core.py on component c: the dictionaries
\* after the call
update_param(c, param, new_value) ==
    [dicts EXCEPT ![c.params] = Updated(@, (param :> new_value))]

\* the mapping that run_one_step of component c returns, each Field as
\* its units and location; `input` stands for the units of an input field
model_run_one_step(c) ==
    CASE c.class = "FrozenFringe" ->
             [ fringe_thickness |-> <<"m", "node">>,
               fringe_saturation |-> <<"None", "node">>,
               fringe_undercooling |-> <<"None", "node">> ]
      [] c.class = "DispersedLayer" ->
             [ dispersed_thickness |-> <<"m", "node">>,
               temperature_gradient |-> <<"K/m", "node">>,
               regelation_rate |-> <<"m/s", "node">> ]
      [] c.class = "ShallowIceApproximation" ->
             [deformation_velocity |-> <<"m/s", "link">>]
      [] c.class = "SimpleGlacialEroder" ->
             [ erosion_rate |-> <<"input", "node">>,
               till_thickness |-> <<"input", "node">> ]



\* the number of components the model lets a run create
MaxObjs == 3

\* the largest time step passed to run_one_step
MaxDt == 2

\* a component that a step returned is stepped again when its potential and
\* thickness are fractions of numerator and denominator up to MaxMagnitude
MaxMagnitude == 6

\* RasterModelGrid((3, 3)), RasterModelGrid((3, 4)), and
\* RasterModelGrid((3, 4), xy_spacing = (2, 1)) with its bottom and top
\* rows closed
Grid3x3 == StaticGrid(3, 3, 1, 1, {})
Grid3x4 == StaticGrid(3, 4, 1, 1, {})
Grid3x4Closed == StaticGrid(3, 4, 2, 1, {0, 1, 2, 3, 8, 9, 10, 11})
Grid4x4 == StaticGrid(4, 4, 1, 1, {})

\* the coefficient arrays of the assembler: every array of values -1, 0, 2
\* on the faces of a grid of up to MaxFaces faces, three arrays (constant,
\* increasing, of mixed signs with zeros) on a larger grid
MaxFaces == 7

CoeffChoices ==
    IF grid.number_of_faces <= MaxFaces
    THEN [Faces -> {Q(-1), Q(0), Q(2)}]
    ELSE { [f \in Faces |-> Q(2)],
           [f \in Faces |-> Q(f + 1)],
           [f \in Faces |-> Q((f % 3) - 1)] }

\* an array on the nodes, by name
NodeArray(name) ==
    Array([n \in Nodes |->
        LET x == n % grid.shape[2]
        IN  CASE name = "zero" -> Q(0)
              [] name = "one" -> Q(1)
              [] name = "minus" -> Q(-1)
              [] name = "x" -> Q(x)
              [] name = "downhill" -> Q(grid.shape[2] - 1 - x)
              [] name = "south" -> Q(grid.shape[1] - 1 - (n \div grid.shape[2]))
              [] name = "index" -> Q(n + 1)
              [] name = "first_row" -> IF n < grid.shape[2] THEN Q(1) ELSE Q(0)
              [] name = "even" -> IF n % 2 = 0 THEN Q(1) ELSE Q(0)])

\* parameter overrides small enough for exact arithmetic
ParamChoices ==
    { [ gravity |-> Q(1), ice_density |-> Q(1), water_density |-> Q(2),
        cavity_spacing |-> Q(2), bed_bump_height |-> Q(1),
        ice_flow_n |-> 1, ice_flow_coeff |-> Rat(1, 2),
        sheet_conductivity |-> Q(1), flow_exp_a |-> 1, flow_exp_b |-> 0 ] }

\* the initial hydraulic potential: a named array, or the given fraction
\* of the ice overburden above the hydrostatic potential of the bed (as in
\* the fixtures of the tests)
InitialPotential(name, ice_thickness, bed_elevation, p) ==
    IF name \in {"hydrostatic", "overburden", "overpressure"}
    THEN Array([n \in Nodes |->
            RAdd(RMul(CASE name = "hydrostatic" -> Q(0)
                        [] name = "overburden" -> Q(1)
                        [] name = "overpressure" -> Rat(9, 4),
                      RMul(RMul(p.ice_density, p.gravity), ice_thickness[n])),
                 RMul(RMul(p.water_density, p.gravity), bed_elevation[n]))])
    ELSE NodeArray(name)

FieldChoices ==
    [ ice_thickness : {"one"},
      bed_elevation : {"one", "x", "downhill", "south"},
      sliding_velocity : {"zero", "minus"},
      melt_input : {"zero", "one"},
      hydraulic_potential : {"zero", "hydrostatic", "overburden"},
      sheet_flow_height : {"zero", "one"} ]
    \cup
    [ ice_thickness : {"one"},
      bed_elevation : {"x"},
      sliding_velocity : {"minus"},
      melt_input : {"zero"},
      hydraulic_potential : {"overpressure"},
      sheet_flow_height : {"zero", "minus"} ]

NoAssembler ==
    [ exists |-> FALSE, coeffs |-> <<>>, forcing |-> <<>>,
      boundary_values |-> <<>>, is_fixed_value |-> <<>>,
      out |-> [done |-> FALSE, forcing |-> <<>>, matrix |-> <<>>] ]

\* MatrixAssembler.__init__
MatrixAssembler(coeffs, forcing, boundary_values, is_fixed_value) ==
    [ exists |-> TRUE, coeffs |-> coeffs, forcing |-> forcing,
      boundary_values |-> boundary_values, is_fixed_value |-> is_fixed_value,
      out |-> [done |-> FALSE, forcing |-> <<>>, matrix |-> <<>>] ]

NoCall == [op |-> "none"]

\* a test of the drainage system builds a grid and one component on it
InitDrainage ==
    /\ test = "distributed_drainage_system"
    /\ grid \in {Grid3x3, Grid3x4, Grid3x4Closed}
    /\ \E f \in FieldChoices, p \in ParamChoices :
          objs = << DistributedDrainageSystem(
                        [ ice_thickness |-> NodeArray(f.ice_thickness),
                          bed_elevation |-> NodeArray(f.bed_elevation),
                          sliding_velocity |-> NodeArray(f.sliding_velocity),
                          melt_input |-> NodeArray(f.melt_input),
                          hydraulic_potential |->
                              InitialPotential(f.hydraulic_potential,
                                               NodeArray(f.ice_thickness),
                                               NodeArray(f.bed_elevation), p),
                          sheet_flow_height |-> NodeArray(f.sheet_flow_height) ],
                        p) >>
    /\ asm = NoAssembler

\* a test of the assembler builds a grid and one assembler on it
InitAssembler ==
    /\ test = "matrix_assembler"
    /\ grid \in {Grid3x3, Grid3x4, Grid4x4}
    /\ objs = <<>>
    /\ \E coeffs \in CoeffChoices,
          is_fixed_value \in {"zero", "one", "first_row", "even"} :
          asm = MatrixAssembler(
                    coeffs, [c \in Cells |-> Q(c + 1)], NodeArray("index"),
                    [n \in Nodes |-> NodeArray(is_fixed_value)[n][1]])

\* a test of the assembler whose rows are assembled one by one, in any
\* order, builds a grid of more than one cell and one assembler on it
InitRows ==
    /\ test = "assemble_row"
    /\ grid \in {Grid3x4, Grid4x4}
    /\ objs = <<>>
    /\ \E coeffs \in { [f \in Faces |-> Q(2)],
                        [f \in Faces |-> Q(f + 1)],
                        [f \in Faces |-> Q((f % 3) - 1)] },
          is_fixed_value \in {"zero", "one", "first_row", "even"} :
          asm = MatrixAssembler(
                    coeffs, [c \in Cells |-> Q(c + 1)], NodeArray("index"),
                    [n \in Nodes |-> NodeArray(is_fixed_value)[n][1]])

\* an array on the links, by name
LinkArray(name) ==
    Array([l \in Links |->
        CASE name = "one" -> Q(1)
          [] name = "minus_two" -> Q(-2)
          [] name = "index" -> Q(l)
          [] name = "mixed" -> Q((l % 3) - 1)])

\* the operators that map an array on the links to the nodes, and those
\* that map an array on the nodes to the links
OnLinks ==
    {"map_mean_of_links_to_node", "sum_at_nodes", "calc_flux_div_at_node"}
OnNodes == {"map_mean_of_link_nodes_to_link", "calc_grad_at_link"}

\* the arrays the operator is called on
InputArrays(name) ==
    IF name \in OnLinks
    THEN {LinkArray(a) : a \in {"one", "minus_two", "index", "mixed"}}
    ELSE {NodeArray(a) : a \in {"one", "index", "x"}}

\* a test of the mesh builds a grid, and a component and an assembler on it
InitStaticGrid ==
    /\ test = "static_grid"
    /\ grid \in {Grid3x3, Grid3x4Closed}
    /\ \E p \in ParamChoices :
          objs = << DistributedDrainageSystem(
                        [ ice_thickness |-> NodeArray("one"),
                          bed_elevation |-> NodeArray("x"),
                          sliding_velocity |-> NodeArray("minus"),
                          melt_input |-> NodeArray("one"),
                          hydraulic_potential |->
                              InitialPotential("overburden", NodeArray("one"),
                                               NodeArray("x"), p),
                          sheet_flow_height |-> NodeArray("one") ],
                        p) >>
    /\ asm = MatrixAssembler(
                 [f \in Faces |-> Q(f + 1)], [c \in Cells |-> Q(c + 1)],
                 NodeArray("index"), [n \in Nodes |-> 1])

MaxComps == 2

\* the fields DistributedDrainageSystem requires, as arrays of one value a
\* node
NodeFields == [field \in DOMAIN required_fields |-> BareArray(grid.number_of_nodes)]

\* the mapping d without the key
NotPassed(d, key) == [k \in DOMAIN d \ {key} |-> d[k]]

\* the fields a caller passes to DistributedDrainageSystem: the required
\* ones, or these with one field left out, or passed as a Field object or
\* an array of another location or length, or with one field more
FieldsPassed ==
    LET nn == grid.number_of_nodes
        nl == grid.number_of_links
    IN  {NodeFields, NotPassed(NodeFields, "ice_thickness")}
            \cup {[NodeFields EXCEPT !.ice_thickness = value] :
                     value \in { Field("node", nn), Field("node", nl),
                                 Field("link", nl), BareArray(nl),
                                 BareArray(nn + nl) }}
            \cup {[NodeFields EXCEPT !.bed_elevation = value] :
                     value \in {Field("node", 1), Field("node", nl)}}
            \cup {Updated(NodeFields, [discharge |-> Field("link", nn)])}

\* the params a caller passes to DistributedDrainageSystem: none, or one
\* value
ParamsPassed == {<<>>, [gravity |-> <<"1.0">>]}

\* a test of the components builds a grid, and no component yet
InitComponents ==
    /\ test = "components"
    /\ grid = Grid3x3
    /\ objs = <<>>
    /\ asm = NoAssembler

Init ==
    /\ last = NoCall
    /\ dicts = Definitions
    /\ comps = <<>>
    /\ \/ InitDrainage
       \/ InitAssembler
       \/ InitRows
       \/ InitStaticGrid
       \/ InitComponents

\* every value of the array is a fraction of numerator and denominator up
\* to MaxMagnitude
Small(array) ==
    \A n \in DOMAIN array :
        Abs(array[n][1]) <= MaxMagnitude /\ array[n][2] <= MaxMagnitude

\* model = model.run_one_step(dt), in a run that no exception has ended:
\* the newest component objs[i] is the receiver, and a component that is
\* returned is a new object
RunOneStep(i, dt) ==
    /\ i = Len(objs)
    /\ Len(objs) < MaxObjs
    /\ last.op \notin {"calc_effective_pressure", "freeze_grid"}
    /\ last.op = "run_one_step" => last.call.result = "returned"
    /\ \/ i = 1
       \/ /\ Small(objs[i].fields.hydraulic_potential)
          /\ Small(objs[i].fields.sheet_flow_height)
    /\ \E call \in {run_one_step(objs[i], dt)} :
          /\ objs' = IF call.result = "returned"
                     THEN Append([objs EXCEPT ![i] = call.self], call.component)
                     ELSE [objs EXCEPT ![i] = call.self]
          /\ last' = [ op |-> "run_one_step", receiver |-> i, dt |-> dt,
                       before |-> objs[i], call |-> call ]
    /\ UNCHANGED <<grid, asm, test, dicts, comps>>

\* one worker assembles the row of a cell that no worker has assembled,
\* with the forcing as the workers before it have left it, and writes the
\* row to the matrix
AssembleRow(cell) ==
    /\ test = "assemble_row"
    /\ last.op \in {"none", "assemble_row"}
    /\ last.op = "assemble_row" => cell \notin last.assembled
    /\ LET forcing == IF last.op = "none" THEN asm.forcing ELSE last.forcing
           matrix == IF last.op = "none"
                     THEN [c \in Cells |-> [d \in Cells |-> Q(0)]]
                     ELSE last.matrix
           assembled == IF last.op = "none" THEN {} ELSE last.assembled
       IN  \E r \in {assemble_row(asm, forcing, cell)} :
               last' = [ op |-> "assemble_row", cell |-> cell,
                         assembled |-> assembled \cup {cell},
                         before |-> forcing,
                         row |-> r.row,
                         forcing |-> r.forcing,
                         matrix |-> [matrix EXCEPT ![cell] = r.row] ]
    /\ UNCHANGED <<grid, objs, asm, test, dicts, comps>>

\* the potentials that calc_effective_pressure is called with: the one the
\* component holds, as in the test of the method, and two others
PressureInputs(c) ==
    {c.fields.hydraulic_potential, NodeArray("index"), NodeArray("minus")}

\* objs[i].calc_effective_pressure(hydraulic_potential), the last call
\* that a test makes
CalcPressure(i, hydraulic_potential) ==
    /\ last.op # "calc_effective_pressure"
    /\ last.op = "run_one_step" => last.call.result = "returned"
    /\ last' = [ op |-> "calc_effective_pressure", receiver |-> i,
                 hydraulic_potential |-> hydraulic_potential,
                 call |-> [value |-> Array(calc_effective_pressure(
                                               objs[i], hydraulic_potential))] ]
    /\ UNCHANGED <<grid, objs, asm, test, dicts, comps>>

\* the assembler runs assemble_matrix()
AssembleMatrix ==
    /\ asm.exists
    /\ \E r \in {assemble_matrix(asm)} :
          asm' = [asm EXCEPT !.out = [ done |-> TRUE, forcing |-> r.forcing,
                                       matrix |-> r.matrix ]]
    /\ last' = [op |-> "assemble_matrix"]
    /\ UNCHANGED <<grid, objs, test, dicts, comps>>

\* call_operator writing the result over its argument
call_operator_in_place(name, array) ==
    [ result |->
          CASE name = "map_mean_of_links_to_node" ->
                   map_mean_of_links_to_node(array)
            [] name = "sum_at_nodes" -> sum_at_nodes(array)
            [] name = "calc_flux_div_at_node" -> calc_flux_div_at_node(array)
            [] name = "map_mean_of_link_nodes_to_link" ->
                   Array(map_mean_of_link_nodes_to_link(array))
            [] name = "calc_grad_at_link" -> Array(calc_grad_at_link(array)),
      array |->
          CASE name = "map_mean_of_links_to_node" ->
                   map_mean_of_links_to_node(array)
            [] name = "sum_at_nodes" -> sum_at_nodes(array)
            [] name = "calc_flux_div_at_node" -> calc_flux_div_at_node(array)
            [] name = "map_mean_of_link_nodes_to_link" ->
                   Array(map_mean_of_link_nodes_to_link(array))
            [] name = "calc_grad_at_link" -> Array(calc_grad_at_link(array)),
      grid |-> grid ]

\* a call of a mapping operator of the mesh: what it returns, and the
\* argument and the mesh as the call leaves them
call_operator(name, array) ==
    [ result |->
          CASE name = "map_mean_of_links_to_node" ->
                   map_mean_of_links_to_node(array)
            [] name = "sum_at_nodes" -> sum_at_nodes(array)
            [] name = "calc_flux_div_at_node" -> calc_flux_div_at_node(array)
            [] name = "map_mean_of_link_nodes_to_link" ->
                   Array(map_mean_of_link_nodes_to_link(array))
            [] name = "calc_grad_at_link" -> Array(calc_grad_at_link(array)),
      array |-> array,
      grid |-> grid ]

\* the test calls grid.<name>(array)
MapOperator(name, array) ==
    /\ test = "static_grid"
    /\ \E call \in {call_operator(name, array)} :
          /\ grid' = call.grid
          /\ last' = [op |-> name, array |-> array, call |-> call]
    /\ UNCHANGED <<objs, asm, test, dicts, comps>>

\* the objects a test passes to freeze_grid: the Landlab grid of the mesh,
\* that grid with node_x one element short, with one link too many
\* declared, with the links of node 0 overwritten by padding, and a graph
\* that has no faces
LandlabGrids ==
    { grid,
      [grid EXCEPT !.node_x = [n \in 0..(grid.number_of_nodes - 2) |-> @[n]]],
      [grid EXCEPT !.number_of_links = @ + 1],
      [grid EXCEPT !.links_at_node[0] = <<-1, -1, -1, -1>>],
      [name \in DOMAIN grid \ {"face_at_link", "link_at_face"} |->
          grid[name]] }

\* the test calls freeze_grid(landlab); it is the last call the test makes
FreezeGrid(landlab) ==
    /\ test = "static_grid"
    /\ last.op # "freeze_grid"
    /\ last' = [ op |-> "freeze_grid", input |-> landlab,
                 call |-> freeze_grid(landlab) ]
    /\ UNCHANGED <<grid, objs, asm, test, dicts, comps>>

\* no exception has ended the test of the components
Running ==
    /\ test = "components"
    /\ last.op = "__init__" => last.call.result = "returned"

\* DistributedDrainageSystem(grid, fields, params), params being left out
\* when it is empty
Construct(fields, params) ==
    /\ Running
    /\ Len(comps) < MaxComps
    /\ \E call \in {DistributedDrainageSystem_of(fields, params)} :
          /\ comps' = IF call.result = "returned"
                      THEN Append(comps, call.component)
                      ELSE comps
          /\ dicts' = call.dicts
          /\ last' = [ op |-> "__init__", class |-> "DistributedDrainageSystem",
                       fields |-> fields, params |-> params,
                       before |-> dicts, held |-> comps, call |-> call ]
    /\ UNCHANGED <<grid, objs, asm, test>>

\* <class>(grid), or <class>(grid, params) with a dictionary of the
\* caller's own that holds the documented values
ConstructModel(class, own) ==
    /\ Running
    /\ Len(comps) < MaxComps
    /\ LET passed == IF own THEN Append(dicts, params_of(class)) ELSE dicts
           params == IF own THEN Len(passed) ELSE DictOf(class)
       IN  \E call \in {ProcessModelOn(passed, class, params)} :
               /\ comps' = Append(comps, call.component)
               /\ dicts' = call.dicts
               /\ last' = [ op |-> "__init__", class |-> class, own |-> own,
                            before |-> dicts, held |-> comps, call |-> call ]
    /\ UNCHANGED <<grid, objs, asm, test>>

\* comps[i].update_param(param, new_value)
UpdateParam(i, param, new_value) ==
    /\ Running
    /\ comps[i].class \in Models
    /\ dicts' = update_param(comps[i], param, new_value)
    /\ last' = [ op |-> "update_param", receiver |-> i, param |-> param,
                 new_value |-> new_value, before |-> dicts ]
    /\ UNCHANGED <<grid, objs, asm, test, comps>>

\* comps[i].run_one_step(dt, fields), fields holding the input fields
StepModel(i) ==
    /\ Running
    /\ comps[i].class \in Models
    /\ last' = [ op |-> "Component.run_one_step", receiver |-> i,
                 call |-> [output |-> model_run_one_step(comps[i])] ]
    /\ UNCHANGED <<grid, objs, asm, test, dicts, comps>>

Next ==
    \/ \E i \in DOMAIN objs, dt \in 1..MaxDt : RunOneStep(i, dt)
    \/ AssembleMatrix
    \/ \E cell \in Cells : AssembleRow(cell)
    \/ \E i \in DOMAIN objs :
          \E hydraulic_potential \in PressureInputs(objs[i]) :
              CalcPressure(i, hydraulic_potential)
    \/ \E name \in OnLinks \cup OnNodes :
          \E array \in InputArrays(name) : MapOperator(name, array)
    \/ \E landlab \in LandlabGrids : FreezeGrid(landlab)
    \/ \E fields \in FieldsPassed, params \in ParamsPassed :
          Construct(fields, params)
    \/ \E class \in Models, own \in BOOLEAN : ConstructModel(class, own)
    \/ \E i \in DOMAIN comps :
          UpdateParam(i, "ice_density", <<"900">>)
    \/ \E i \in DOMAIN comps : StepModel(i)

Spec == Init /\ [][Next]_vars

----------------------------------------------------------------------------
(* Properties.                                                             *)

\* the nodes adjacent to node n
Adjacent(n) == {grid.adjacent_nodes_at_node[n][k] : k \in Slots} \ {-1}

\* the interior nodes adjacent to node n
InteriorAdjacent(n) == {m \in Adjacent(n) : grid.status_at_node[m] = 0}

\* the hydrostatic potential of the bed of component c at node n
Hydrostatic(c, n) ==
    RMul(RMul(c.params.water_density, c.params.gravity), c.fields.bed_elevation[n])

\* the face between nodes n and m
FaceBetween(n, m) ==
    grid.face_at_link[CHOOSE l \in Links :
        {grid.node_at_link_head[l], grid.node_at_link_tail[l]} = {n, m}]

\* the cells of the interior nodes adjacent to the node of cell c
NeighbourCells(c) ==
    {grid.cell_at_node[m] : m \in InteriorAdjacent(grid.node_at_cell[c])}

\* C1 (as amended): the flag of a node is 0 at a node that is not a
\* boundary node, -1 at a boundary node whose hydrostatic potential is at
\* most that of every node adjacent to it, interior or not, and +1 at
\* every other boundary node.
C1_FlagsFromAllAdjacent ==
    \A i \in DOMAIN objs : \A n \in Nodes :
        objs[i].boundary_tags[n] =
            IF grid.status_at_node[n] = 0 THEN 0
            ELSE IF \A m \in Adjacent(n) :
                        RLe(Hydrostatic(objs[i], n), Hydrostatic(objs[i], m))
                 THEN -1 ELSE 1

\* C1 as stated: the flag of a boundary node is -1 exactly when its
\* hydrostatic potential is at most that of its interior neighbours.
C1_FlagsFromInteriorNeighbours ==
    \A i \in DOMAIN objs : \A n \in Nodes :
        objs[i].boundary_tags[n] =
            IF grid.status_at_node[n] = 0 THEN 0
            ELSE IF \A m \in InteriorAdjacent(n) :
                        RLe(Hydrostatic(objs[i], n), Hydrostatic(objs[i], m))
                 THEN -1 ELSE 1

\* a component with flags of all three kinds, one of them the +1 of a
\* boundary node no higher than its interior neighbours
C1_Witness ==
    /\ objs # <<>>
    /\ \E n, m \in Nodes :
          objs[1].boundary_tags[n] = -1 /\ objs[1].boundary_tags[m] = 0
    /\ \E n \in Nodes :
          /\ objs[1].boundary_tags[n] = 1
          /\ InteriorAdjacent(n) # {}
          /\ \A m \in InteriorAdjacent(n) :
                RLe(Hydrostatic(objs[1], n), Hydrostatic(objs[1], m))

\* the coefficient of the face between the node of cell c and node m
CoeffTowards(c, m) == asm.coeffs[FaceBetween(grid.node_at_cell[c], m)]

\* C2 (as amended): in the assembled matrix every nonzero entry of row c
\* is in column c or in the column of the cell of an interior neighbour;
\* the entry in an interior neighbour's column is the coefficient of the
\* face between the two, the diagonal entry is minus the sum of the
\* coefficients of the faces towards the interior and the fixed-value
\* neighbours, and a no-flux neighbour contributes nothing.
C2_RowPattern ==
    asm.out.done =>
        \A c \in Cells :
            LET node == grid.node_at_cell[c]
                counted == {m \in Adjacent(node) :
                               \/ grid.status_at_node[m] = 0
                               \/ asm.is_fixed_value[m] = 1}
            IN  /\ \A d \in Cells :
                      asm.out.matrix[c][d] # Q(0) => d \in {c} \cup NeighbourCells(c)
                /\ \A m \in InteriorAdjacent(node) :
                      asm.out.matrix[c][grid.cell_at_node[m]] = CoeffTowards(c, m)
                /\ asm.out.matrix[c][c] =
                      RNeg(RSum([m \in counted |-> CoeffTowards(c, m)], counted))

\* C2 as stated: the columns of the nonzero entries of row c are exactly c
\* and the cells of the interior neighbours.
C2_ExactPattern ==
    asm.out.done =>
        \A c \in Cells :
            {d \in Cells : asm.out.matrix[c][d] # Q(0)} = {c} \cup NeighbourCells(c)

\* an assembled matrix with a nonzero entry off the diagonal, of a cell
\* that has a no-flux neighbour across a face of nonzero coefficient
C2_Witness ==
    /\ asm.out.done
    /\ \E c \in Cells :
          /\ \E d \in NeighbourCells(c) : asm.out.matrix[c][d] # Q(0)
          /\ \E m \in Adjacent(grid.node_at_cell[c]) :
                /\ grid.status_at_node[m] # 0
                /\ asm.is_fixed_value[m] = 0
                /\ CoeffTowards(c, m) # Q(0)

\* C8: the assembled matrix is symmetric.
C8_Symmetric ==
    asm.out.done =>
        \A c, d \in Cells : asm.out.matrix[c][d] = asm.out.matrix[d][c]

\* an assembled matrix of four cells with nonzero entries off the diagonal
C8_Witness ==
    /\ asm.out.done
    /\ grid.number_of_cells = 4
    /\ \A c \in Cells : \E d \in Cells \ {c} : asm.out.matrix[c][d] # Q(0)

\* the last operation was a run_one_step, and it returned a component
Stepped == last.op = "run_one_step"
Returned == Stepped /\ last.call.result = "returned"

\* C3: after run_one_step, returned or raised, the receiver is the
\* component it was before the call (fields, parameters and flags), and a
\* returned component is a new object.
C3_ReceiverUnchanged ==
    Stepped =>
        /\ objs[last.receiver] = last.before
        /\ Returned => /\ Len(objs) = last.receiver + 1
                       /\ objs[Len(objs)] = last.call.component

\* a step that returned a component whose potential and thickness differ
\* from the receiver's
C3_Witness ==
    /\ Returned
    /\ last.call.component.fields.hydraulic_potential
           # last.before.fields.hydraulic_potential
    /\ last.call.component.fields.sheet_flow_height
           # last.before.fields.sheet_flow_height

\* the product of row r of the matrix with the vector x
RowTimes(matrix, r, x) ==
    RSum([d \in Cells |-> RMul(matrix[r][d], x[d])], Cells)

\* C4: the potential a step returns is, at a node with a cell, the value
\* of the cell in the solution of the step's linear system, and at a node
\* without a cell the hydrostatic potential of the bed; so it is in every
\* component that steps have returned.
C4_PotentialScattered ==
    /\ Returned =>
          LET out == last.call.component
              sys == _assemble_linear_system(
                         last.before, last.before.fields.hydraulic_potential,
                         out.fields.sheet_flow_height)
          IN  /\ \A r \in Cells :
                    RowTimes(sys.matrix, r, last.call.solution) = sys.forcing[r]
              /\ \A n \in Nodes :
                    out.fields.hydraulic_potential[n] =
                        IF grid.cell_at_node[n] # -1
                        THEN last.call.solution[grid.cell_at_node[n]]
                        ELSE Hydrostatic(last.before, n)
    /\ \A i \in DOMAIN objs : \A n \in Nodes :
          i > 1 /\ grid.cell_at_node[n] = -1 =>
              objs[i].fields.hydraulic_potential[n] = Hydrostatic(objs[i], n)

\* a second consecutive step that returned, the first step having started
\* from a potential that was not hydrostatic at a node without a cell, and
\* the second solution not being hydrostatic at a node with a cell
C4_Witness ==
    /\ Returned
    /\ last.receiver = 2
    /\ \E n \in Nodes :
          /\ grid.cell_at_node[n] = -1
          /\ objs[1].fields.hydraulic_potential[n] # Hydrostatic(objs[1], n)
    /\ \E n \in Nodes :
          /\ grid.cell_at_node[n] # -1
          /\ last.call.component.fields.hydraulic_potential[n]
                 # Hydrostatic(last.before, n)

\* C5 as stated: the flags a step uses, once an earlier step has changed
\* the potential, are the classification of the potential the component
\* holds at the start of the step.
C5_FlagsRecomputed ==
    Stepped /\ last.receiver > 1 =>
        last.call.tags_used =
            _set_inflow_outflow(last.before.fields.hydraulic_potential)

\* every coefficient of the system for potential and thickness h between a
\* cell and a boundary node next to it is zero: the system has no anchor
NoAnchor(c, potential, h) ==
    \A cell \in Cells :
        \A m \in Adjacent(grid.node_at_cell[cell]) :
            grid.status_at_node[m] # 0 =>
                _get_coeffs_at_link(c, cell, m, potential, h) = Q(0)

\* C6 as stated: a step whose linear system has no anchor ends in an error
\* without the linear solve having been attempted.
C6_ReportedBeforeSolve ==
    /\ Stepped
    /\ last.call.error # "root_find"
    /\ NoAnchor(last.before, last.before.fields.hydraulic_potential,
                mask_thickness(last.before, last.call.root))
    => last.call.result = "raised" /\ ~last.call.solve_attempted

\* the residual of the implicit update of the last step at thickness h is
\* within tolerance at every node
ResidualSmall(h) ==
    LET c == last.before
        N == calc_effective_pressure(c, c.fields.hydraulic_potential)
    IN  \A n \in Nodes :
            below_tol(residual_at(c, last.dt, N, c.fields.sheet_flow_height,
                                  n, h[n]))

\* C7: a run_one_step ends, having made at most max_steps Newton steps,
\* with a returned component or with an error; the thickness of a returned
\* component is a converged root at every interior node, and a root-find
\* that did not converge ends the step with the error of the root-find.
C7_CappedAndExplicit ==
    Stepped =>
        /\ last.call.newton_steps <= max_steps
        /\ last.call.result \in {"returned", "raised"}
        /\ last.call.result = "raised" <=> last.call.error # "none"
        /\ Returned =>
              /\ ResidualSmall(last.call.root)
              /\ last.call.component.fields.sheet_flow_height
                     = mask_thickness(last.before, last.call.root)
        /\ ~ResidualSmall(last.call.root) =>
              /\ last.call.error = "root_find"
              /\ last.call.component = <<>>

\* a step whose root-find used up its max_steps Newton steps
C7_Witness ==
    /\ Stepped
    /\ last.call.newton_steps = max_steps
    /\ ~ResidualSmall(last.call.root)
    /\ last.call.result = "raised"

\* dhdt is zero at every node for the fields of component c
Steady(c) ==
    \A n \in Nodes :
        _calc_dhdt(c, c.fields.hydraulic_potential,
                   c.fields.sheet_flow_height)[n] = Q(0)

\* C9 (as amended): a step from fields where dhdt is zero everywhere, if
\* it returns, returns the thickness it started from at every interior
\* node and a thickness of zero at every boundary node.
C9_SteadyThickness ==
    Returned /\ Steady(last.before) =>
        /\ last.call.root = last.before.fields.sheet_flow_height
        /\ \A n \in Nodes :
              last.call.component.fields.sheet_flow_height[n] =
                  IF grid.status_at_node[n] = 0
                  THEN last.before.fields.sheet_flow_height[n] ELSE Q(0)

\* C9 as stated: a step from fields where dhdt is zero everywhere returns
\* the thickness and the potential it started from.
C9_SteadyIdempotent ==
    Returned /\ Steady(last.before) =>
        /\ last.call.component.fields.sheet_flow_height
               = last.before.fields.sheet_flow_height
        /\ last.call.component.fields.hydraulic_potential
               = last.before.fields.hydraulic_potential

\* a returned step from steady fields with water at a boundary node
C9_Witness ==
    /\ Returned
    /\ Steady(last.before)
    /\ \E n \in Nodes :
          /\ grid.status_at_node[n] # 0
          /\ last.before.fields.sheet_flow_height[n] # Q(0)
    /\ \E n \in Nodes :
          /\ grid.status_at_node[n] = 0
          /\ last.before.fields.sheet_flow_height[n] # Q(0)

\* C10 as stated: the thickness a step returns is nowhere negative.
C10_ThicknessNonNegative ==
    Returned =>
        \A n \in Nodes :
            RLe(Q(0), last.call.component.fields.sheet_flow_height[n])

----------------------------------------------------------------------------
(* C11: on a potential that strictly decreases along one coordinate.       *)

\* the array v on the nodes depends on the coordinate `at` only and
\* strictly decreases as it grows
DecreasingAlong(v, at) ==
    \A n, m \in Nodes :
        /\ RLt(at[n], at[m]) => RLt(v[m], v[n])
        /\ at[n] = at[m] => v[n] = v[m]

\* the boundary nodes on the edge where the coordinate `at` is least
LowEdge(at) ==
    {n \in Nodes : grid.status_at_node[n] > 0 /\ \A m \in Nodes : RLe(at[n], at[m])}

\* the boundary nodes on the edge where the coordinate `at` is greatest
HighEdge(at) ==
    {n \in Nodes : grid.status_at_node[n] > 0 /\ \A m \in Nodes : RLe(at[m], at[n])}

\* the flags of component c are `low` on the low edge and `high` on the
\* high edge of every coordinate its classified potential decreases along
EdgeFlags(c, low, high) ==
    \A at \in {grid.node_x, grid.node_y} :
        DecreasingAlong(base_potential(c), at) =>
            /\ \A n \in LowEdge(at) : c.boundary_tags[n] = low
            /\ \A n \in HighEdge(at) : c.boundary_tags[n] = high

\* C11 (as amended): when the classified potential strictly decreases along
\* one coordinate of the raster (and does not vary along the other), every
\* boundary node on the low-coordinate edge is flagged inflow (1) and every
\* boundary node on the high-coordinate edge is flagged outflow (-1).
C11_LowEdgeInflow ==
    \A i \in DOMAIN objs : EdgeFlags(objs[i], 1, -1)

\* C11 (as stated): on such a potential the low-coordinate edge is flagged
\* outflow (-1) and the high-coordinate edge inflow (1).
C11_LowEdgeOutflow ==
    \A i \in DOMAIN objs : EdgeFlags(objs[i], -1, 1)

\* a component classified on a potential that decreases along y, whose
\* bottom row is flagged inflow and whose top row is flagged outflow
C11_Witness ==
    /\ Len(objs) >= 1
    /\ DecreasingAlong(base_potential(objs[1]), grid.node_y)
    /\ \E n \in LowEdge(grid.node_y) : objs[1].boundary_tags[n] = 1
    /\ \E n \in HighEdge(grid.node_y) : objs[1].boundary_tags[n] = -1

----------------------------------------------------------------------------
(* C12 - C15: the construction of components, their parameters and the    *)
(* fields they hold and return.                                           *)

\* the index of the dictionary that component c reads its parameters from
ParamsAt(c) == IF c.class \in Models THEN c.params ELSE c._params

\* the default values that the source documents for a class
Documented(class) ==
    IF class \in Models THEN params_of(class) ELSE default_parameters

\* the last call constructed a component, and passed no parameters
DefaultConstructed ==
    /\ last.op = "__init__"
    /\ last.call.result = "returned"
    /\ IF last.class \in Models THEN ~last.own ELSE last.params = <<>>

\* the components other than the receiver of the last call, which is the
\* component constructed or updated
Others ==
    IF last.op = "__init__" THEN DOMAIN last.held
    ELSE IF last.op = "update_param" THEN DOMAIN comps \ {last.receiver}
    ELSE {}

\* C12: parameters are per-instance: a component constructed without
\* overrides holds the documented default value of every documented
\* parameter, whatever constructions and updates came before, and the
\* construction of a component (with overrides or without) or the update
\* of a parameter of one leaves the parameters that every other component
\* sees as they were
C12_ParametersPerInstance ==
    /\ DefaultConstructed =>
          LET seen == dicts[ParamsAt(comps[Len(comps)])]
          IN  \A k \in DOMAIN Documented(last.class) :
                  seen[k] = Documented(last.class)[k]
    /\ \A j \in Others :
          dicts[ParamsAt(comps[j])] = last.before[ParamsAt(comps[j])]

\* a required field is missing from the fields passed, or is passed as a
\* Field object of another location than the required one, or as an array
\* whose length is not the number of elements of the required location
WrongFields(fields, required) ==
    \E field \in DOMAIN required :
        \/ field \notin DOMAIN fields
        \/ /\ field \in DOMAIN fields
           /\ IF fields[field].is_field
              THEN fields[field].location # required[field]
              ELSE fields[field].length # Count(required[field])

\* the last call is the construction of a drainage system
Constructing ==
    last.op = "__init__" /\ last.class = "DistributedDrainageSystem"

\* C13: the construction of a component to which a required field is not
\* passed, or is passed with another location than the required one, fails
\* with an error and yields no component: the components held are those
\* held before
C13_RequiredFieldsChecked ==
    (Constructing /\ WrongFields(last.fields, required_fields)) =>
        /\ last.call.result = "raised"
        /\ last.call.error # ""
        /\ last.call.component = <<>>
        /\ comps = last.held

\* one component is held, and the construction of a second one, to which
\* a required field is passed as a Field object on links, has failed
C13_Witness ==
    /\ Constructing
    /\ Len(comps) = 1
    /\ \E field \in DOMAIN required_fields \cap DOMAIN last.fields :
          /\ last.fields[field].is_field
          /\ last.fields[field].location = "link"
    /\ last.call.result = "raised"

\* C14: every field that a constructed component holds has as many values
\* as the mesh has elements of the field's location, whether it was passed
\* as a Field object or as an array
C14_FieldLengthIsElementCount ==
    \A i \in DOMAIN comps :
        comps[i].class = "DistributedDrainageSystem" =>
            \A field \in DOMAIN comps[i]._fields :
                comps[i]._fields[field].length
                    = Count(comps[i]._fields[field].location)

\* C15: the names of the fields in the mapping that run_one_step of a
\* process model returns are the names that the model declares as its
\* output_fields
C15_ReturnsDeclaredOutputs ==
    last.op = "Component.run_one_step" =>
        DOMAIN last.call.output = DOMAIN comps[last.receiver].output_fields

----------------------------------------------------------------------------
(* C16 - C20: the mapping operators of the mesh.                           *)

\* the links that leave node n (n is their tail), those that enter it (n
\* is their head), and all the links at n
Outgoing(n) == {l \in Links : grid.node_at_link_tail[l] = n}
Incoming(n) == {l \in Links : grid.node_at_link_head[l] = n}
Incident(n) == Outgoing(n) \cup Incoming(n)

\* the last operation was a call of the operator `name`
Called(name) == last.op = name

FaceFlux(q, S) ==
    RSum([l \in Links |-> RMul(q[l], grid.length_of_face[grid.face_at_link[l]])],
         {l \in S : grid.face_at_link[l] # -1})

\* C17: calc_flux_div_at_node(q)[n] is 0 where the cell area is 0, and
\* elsewhere the sum of q * face length over the links that leave n minus
\* that over the links that enter n, divided by the cell area; only links
\* that have a face are summed.
C17_FluxDivergence ==
    Called("calc_flux_div_at_node") =>
        \A n \in Nodes :
            last.call.result[n] =
                IF grid.cell_area_at_node[n] = Q(0) THEN Q(0)
                ELSE RDiv(RSub(FaceFlux(last.array, Outgoing(n)),
                               FaceFlux(last.array, Incoming(n))),
                          grid.cell_area_at_node[n])

\* the divergence of a flux that varies, not zero at some node, on a
\* raster whose faces have different lengths
C17_Witness ==
    /\ Called("calc_flux_div_at_node")
    /\ last.array[0] # last.array[1]
    /\ grid.length_of_link[0] = Q(2)
    /\ \E n \in Nodes : last.call.result[n] # Q(0)

\* C18 (as amended): sum_at_nodes(a)[n] is the sum of a over the links
\* that enter n minus the sum of a over the links that leave n.
C18_InwardPositive ==
    Called("sum_at_nodes") =>
        \A n \in Nodes :
            last.call.result[n] =
                RSub(RSum(last.array, Incoming(n)), RSum(last.array, Outgoing(n)))

\* C18 (as stated): sum_at_nodes(a)[n] is the sum of a over the links
\* that leave n minus the sum of a over the links that enter n.
C18_OutwardPositive ==
    Called("sum_at_nodes") =>
        \A n \in Nodes :
            last.call.result[n] =
                RSub(RSum(last.array, Outgoing(n)), RSum(last.array, Incoming(n)))

\* a sum at the nodes that is not zero at some node
C18_Witness ==
    /\ Called("sum_at_nodes")
    /\ \E n \in Nodes : last.call.result[n] # Q(0)

\* C19: map_mean_of_links_to_node(a)[n] is the sum of a over the links at
\* n divided by their number; a padding slot is in neither.
C19_MeanOfIncidentLinks ==
    Called("map_mean_of_links_to_node") =>
        \A n \in Nodes :
            last.call.result[n] =
                RDiv(RSum(last.array, Incident(n)), Q(Cardinality(Incident(n))))

\* a mean at a node that has padding slots, of an array whose last value
\* (the one index -1 reads) is not zero
C19_Witness ==
    /\ Called("map_mean_of_links_to_node")
    /\ last.array[grid.number_of_links - 1] # Q(0)
    /\ \E n \in Nodes : /\ Cardinality(Incident(n)) < 4
                         /\ last.call.result[n] # Q(0)

\* C20: no step changes the mesh, and a mapping operator leaves the array
\* it was called on as it was.
C20_MeshNeverModified ==
    [][ /\ grid' = grid
        /\ last'.op \in OnLinks \cup OnNodes => last'.call.array = last'.array
      ]_vars

\* a run in which a solver step has returned, the matrix has been
\* assembled and a mapping operator has been called
C20_Witness ==
    /\ Len(objs) >= 2
    /\ asm.exists /\ asm.out.done
    /\ last.op \in OnLinks

----------------------------------------------------------------------------
(* C21: the construction of the mesh.                                      *)

\* the arrays of each kind of element, and the count that declares it
arrays_at ==
    [ number_of_nodes |->
          { "node_x", "node_y", "cell_area_at_node", "status_at_node",
            "links_at_node", "link_dirs_at_node", "adjacent_nodes_at_node",
            "cell_at_node" },
      number_of_links |->
          { "length_of_link", "status_at_link", "node_at_link_head",
            "node_at_link_tail", "face_at_link" },
      number_of_faces |-> {"length_of_face", "link_at_face"},
      number_of_cells |-> {"node_at_cell"} ]

\* every array of g has the length its element count declares
LengthsMatch(g) ==
    \A count \in DOMAIN arrays_at : \A name \in arrays_at[count] :
        DOMAIN g[name] = 0..(g[count] - 1)

\* the tables of g at its nodes have their padding in the same slots
PaddingConsistent(g) ==
    \A n \in DOMAIN g.links_at_node : \A k \in Slots :
        /\ g.links_at_node[n][k] = -1 <=> g.link_dirs_at_node[n][k] = 0
        /\ g.links_at_node[n][k] = -1 <=> g.adjacent_nodes_at_node[n][k] = -1

\* g has every table of a mesh, of matching lengths and consistent padding
WellFormed(g) ==
    IF fields_of_StaticGrid \subseteq DOMAIN g
    THEN LengthsMatch(g) /\ PaddingConsistent(g)
    ELSE FALSE

\* C21: freeze_grid raises an error, and returns no mesh, for every input
\* whose arrays do not match the declared element counts or whose tables
\* have inconsistent -1 padding.
C21_MalformedRejected ==
    last.op = "freeze_grid" =>
        (~ WellFormed(last.input) => last.call.result = "raised")

----------------------------------------------------------------------------
(* C22: the effective pressure.                                            *)

\* C22: calc_effective_pressure(potential) is, at every node, ice_density *
\* gravity * ice_thickness minus (potential - water_density * gravity *
\* bed_elevation), whatever the potential passed and whatever else the
\* component holds.
C22_EffectivePressure ==
    last.op = "calc_effective_pressure" =>
        LET c == objs[last.receiver]
        IN  \A n \in Nodes :
                last.call.value[n] =
                    RSub(RMul(RMul(c.params.ice_density, c.params.gravity),
                              c.fields.ice_thickness[n]),
                         RSub(last.hydraulic_potential[n],
                              RMul(RMul(c.params.water_density, c.params.gravity),
                                   c.fields.bed_elevation[n])))

\* the effective pressure of a potential that is not the one held, asked
\* of a component that a step returned, whose bed is not level, and
\* negative at one node and positive at another
C22_Witness ==
    /\ last.op = "calc_effective_pressure"
    /\ last.receiver >= 2
    /\ last.hydraulic_potential
           # objs[last.receiver].fields.hydraulic_potential
    /\ \E n, m \in Nodes :
          /\ objs[last.receiver].fields.bed_elevation[n]
                 # objs[last.receiver].fields.bed_elevation[m]
          /\ RLt(last.call.value[n], Q(0))
          /\ RLt(Q(0), last.call.value[m])

----------------------------------------------------------------------------
(* C23, C24, C28, C29: the entries of the assembled matrix and forcing.    *)

\* the links at node n, the padding left out
LinksAt(n) == {grid.links_at_node[n][k] : k \in Slots} \ {-1}

\* the end of link l that is not node n
OtherEnd(n, l) ==
    CHOOSE m \in {grid.node_at_link_head[l], grid.node_at_link_tail[l]} : m # n

\* the coefficient of the face that link l crosses
FaceCoeff(l) == asm.coeffs[grid.face_at_link[l]]

\* the links from the node of cell c to a boundary node flagged fixed-value
FixedLinks(c) ==
    {l \in LinksAt(grid.node_at_cell[c]) :
        /\ grid.status_at_node[OtherEnd(grid.node_at_cell[c], l)] # 0
        /\ asm.is_fixed_value[OtherEnd(grid.node_at_cell[c], l)] = 1}

\* the links from the node of cell c to an interior node
InteriorLinks(c) ==
    {l \in LinksAt(grid.node_at_cell[c]) :
        grid.status_at_node[OtherEnd(grid.node_at_cell[c], l)] = 0}

\* the links from the node of cell c to a boundary node that is not flagged
NoFluxLinks(c) ==
    LinksAt(grid.node_at_cell[c]) \ (FixedLinks(c) \cup InteriorLinks(c))

\* C23: in the assembled matrix, the entry of row c in the column of
\* another cell is the sum of the coefficients of the links between the
\* nodes of the two cells (0 when there is none), and the entry on the
\* diagonal is minus the sum of the coefficients of the links from the
\* node of c to interior nodes and to boundary nodes flagged fixed-value;
\* the other links add nothing.
C23_MatrixEntries ==
    asm.out.done =>
        \A c, d \in Cells :
            asm.out.matrix[c][d] =
                IF c = d
                THEN RNeg(RSum([l \in FixedLinks(c) \cup InteriorLinks(c) |->
                                   FaceCoeff(l)],
                               FixedLinks(c) \cup InteriorLinks(c)))
                ELSE LET joining ==
                             {l \in InteriorLinks(c) :
                                 OtherEnd(grid.node_at_cell[c], l)
                                     = grid.node_at_cell[d]}
                     IN  RSum([l \in joining |-> FaceCoeff(l)], joining)

\* an assembled matrix of four cells, one of which has, across faces of
\* nonzero coefficient, an interior neighbour, a fixed-value neighbour and
\* a boundary neighbour that is not flagged
C23_Witness ==
    /\ asm.out.done
    /\ grid.number_of_cells = 4
    /\ \E c \in Cells :
          /\ \E l \in InteriorLinks(c) : FaceCoeff(l) # Q(0)
          /\ \E l \in FixedLinks(c) : FaceCoeff(l) # Q(0)
          /\ \E l \in NoFluxLinks(c) : FaceCoeff(l) # Q(0)

\* C24: the assembled forcing of cell c is the forcing passed in plus, for
\* every link from the node of c to a boundary node flagged fixed-value,
\* minus the coefficient of the link times the boundary value of that
\* node; the other links leave it as it is, and the assembly of a row
\* leaves the forcing of every other cell as it is.
C24_ForcingEntries ==
    /\ asm.out.done =>
          \A c \in Cells :
              asm.out.forcing[c] =
                  RAdd(asm.forcing[c],
                       RSum([l \in FixedLinks(c) |->
                                RMul(RNeg(FaceCoeff(l)),
                                     asm.boundary_values[
                                         OtherEnd(grid.node_at_cell[c], l)])],
                            FixedLinks(c)))
    /\ last.op = "assemble_row" =>
          \A c \in Cells \ {last.cell} : last.forcing[c] = last.before[c]

\* an assembled forcing that differs from the forcing passed in at one
\* cell, and is the forcing passed in at a cell that has interior and
\* unflagged boundary neighbours across faces of nonzero coefficient
C24_Witness ==
    /\ asm.out.done
    /\ \E c \in Cells : asm.out.forcing[c] # asm.forcing[c]
    /\ \E c \in Cells :
          /\ asm.out.forcing[c] = asm.forcing[c]
          /\ \E l \in InteriorLinks(c) : FaceCoeff(l) # Q(0)
          /\ \E l \in NoFluxLinks(c) : FaceCoeff(l) # Q(0)

\* C28: the assembly of the row of a cell writes row c of the matrix and
\* entry c of the forcing only, and what it writes is what it would write
\* were it the first row assembled; so the rows assembled in any order
\* give the matrix and the forcing of assemble_matrix.
C28_RowsRaceFree ==
    last.op = "assemble_row" =>
        /\ \A c \in Cells \ {last.cell} : last.forcing[c] = last.before[c]
        /\ \A c \in Cells \ last.assembled :
              /\ last.matrix[c] = [d \in Cells |-> Q(0)]
              /\ last.forcing[c] = asm.forcing[c]
        /\ LET alone == assemble_row(asm, asm.forcing, last.cell)
           IN  /\ last.matrix[last.cell] = alone.row
               /\ last.forcing[last.cell] = alone.forcing[last.cell]
        /\ last.assembled = Cells =>
              /\ last.matrix = assemble_matrix(asm).matrix
              /\ last.forcing = assemble_matrix(asm).forcing

\* the four rows of a matrix assembled, the row of the first cell last,
\* the forcing of more than one cell having been written
C28_Witness ==
    /\ last.op = "assemble_row"
    /\ grid.number_of_cells = 4
    /\ last.assembled = Cells
    /\ last.cell = 0
    /\ \E c, d \in Cells :
          /\ c # d
          /\ last.forcing[c] # asm.forcing[c]
          /\ last.forcing[d] # asm.forcing[d]

\* the sum of row c of the assembled matrix
RowSum(c) == RSum([d \in Cells |-> asm.out.matrix[c][d]], Cells)

\* no boundary node is flagged fixed-value
NoneFixed ==
    \A n \in Nodes : grid.status_at_node[n] # 0 => asm.is_fixed_value[n] = 0

\* C29: every row of the assembled matrix sums to minus the sum of the
\* coefficients of its links to fixed-value neighbours, so to zero when it
\* has none; when no boundary node is flagged fixed-value every row sums
\* to zero and the matrix is singular.
C29_RowSums ==
    asm.out.done =>
        /\ \A c \in Cells :
              RowSum(c) = RNeg(RSum([l \in FixedLinks(c) |-> FaceCoeff(l)],
                                    FixedLinks(c)))
        /\ \A c \in Cells : FixedLinks(c) = {} => RowSum(c) = Q(0)
        /\ NoneFixed =>
              LET order == [k \in 1..grid.number_of_cells |-> k - 1]
              IN  /\ \A c \in Cells : RowSum(c) = Q(0)
                  /\ Det(asm.out.matrix, order, order) = Q(0)

\* an assembled matrix of four cells with no fixed-value boundary node and
\* a nonzero entry in every row
C29_Witness ==
    /\ asm.out.done
    /\ grid.number_of_cells = 4
    /\ NoneFixed
    /\ \A c \in Cells : asm.out.matrix[c][c] # Q(0)

----------------------------------------------------------------------------
(* C25 - C27, C30: the linear system and the thickness of a step.          *)

\* the thickness that the last step passed on to the solve for potential
NewThickness == mask_thickness(last.before, last.call.root)

\* the coefficient that the last step used on the link between the node of
\* the cell and its neighbour m
StepCoeff(cell, m) ==
    _get_coeffs_at_link(last.before, cell, m,
                        last.before.fields.hydraulic_potential, NewThickness)

\* the forcing of the last step at the cell before the boundary values are
\* added: melt input minus dhdt, dhdt being evaluated at the starting
\* potential and the thickness h
BaseForcing(cell, h) ==
    LET c == last.before
        n == grid.node_at_cell[cell]
        N == calc_effective_pressure(c, c.fields.hydraulic_potential)
    IN  RSub(c.fields.melt_input[n], dhdt_at(c, N[n], n, h[n]))

\* the last step assembled a linear system
Assembled == Stepped /\ last.call.solve_attempted

\* C25 as stated: in the linear system of a step, a boundary neighbour
\* flagged outflow adds nothing to the diagonal and the forcing of the
\* cell next to it, and a boundary neighbour flagged inflow has its
\* coefficient subtracted from the diagonal and adds minus the coefficient
\* times its hydrostatic potential to the forcing.
C25_InflowFixedOutflowNoFlux ==
    Assembled =>
        \A cell \in Cells :
            LET adj == Adjacent(grid.node_at_cell[cell])
                fixed == {m \in adj : last.call.tags_used[m] = 1}
                interior == {m \in adj : grid.status_at_node[m] = 0}
            IN  /\ last.call.system.matrix[cell][cell] =
                       RNeg(RSum([m \in fixed \cup interior |->
                                     StepCoeff(cell, m)], fixed \cup interior))
                /\ last.call.system.forcing[cell] =
                       RAdd(BaseForcing(cell, NewThickness),
                            RSum([m \in fixed |->
                                     RMul(RNeg(StepCoeff(cell, m)),
                                          Hydrostatic(last.before, m))],
                                 fixed))

\* C26: in a step that returns, the thickness is computed first, from the
\* potential and the thickness that the step starts from; the linear
\* system is then assembled with the new thickness (its forcing is the melt
\* input minus dhdt at the new thickness, before the boundary values are
\* added), and the component returned holds this thickness and the
\* solution of this system.
C26_ThicknessThenPotential ==
    Returned =>
        LET c == last.before
            out == last.call.component
            new == out.fields.sheet_flow_height
            N == calc_effective_pressure(c, c.fields.hydraulic_potential)
        IN  /\ new = NewThickness
            /\ \A n \in Nodes :
                  grid.status_at_node[n] = 0 =>
                      below_tol(residual_at(c, last.dt, N,
                                            c.fields.sheet_flow_height, n, new[n]))
            /\ last.call.system =
                  _assemble_linear_system(c, c.fields.hydraulic_potential, new)
            /\ \A cell \in Cells :
                  (\A m \in Adjacent(grid.node_at_cell[cell]) :
                       last.call.tags_used[m] # -1) =>
                      last.call.system.forcing[cell] = BaseForcing(cell, new)
            /\ \A r \in Cells :
                  RowTimes(last.call.system.matrix, r, last.call.solution)
                      = last.call.system.forcing[r]
            /\ \A n \in Nodes :
                  grid.cell_at_node[n] # -1 =>
                      out.fields.hydraulic_potential[n]
                          = last.call.solution[grid.cell_at_node[n]]

\* a returned step whose new thickness is not the thickness it started
\* from at an interior node, and whose system is not the one that the
\* thickness it started from gives
C26_Witness ==
    /\ Returned
    /\ \E n \in Nodes :
          /\ grid.status_at_node[n] = 0
          /\ last.call.component.fields.sheet_flow_height[n]
                 # last.before.fields.sheet_flow_height[n]
    /\ last.call.system #
          _assemble_linear_system(last.before,
                                  last.before.fields.hydraulic_potential,
                                  last.before.fields.sheet_flow_height)

\* the component of the last step, holding a potential that differs from
\* its own at the boundary nodes only
Raised1AtBoundary ==
    [last.before EXCEPT !.fields.hydraulic_potential =
        Array([n \in Nodes |->
                  IF grid.status_at_node[n] = 0 THEN @[n] ELSE RAdd(@[n], Q(1))])]

\* C27 as stated: the coefficients of the linear system of a step are a
\* function of the new thickness and the mesh only: a step of the same
\* component from another potential that arrives at the same new thickness
\* uses the same coefficient on every link of every cell.
C27_CoefficientsFromThicknessOnly ==
    Assembled =>
        LET other == Raised1AtBoundary
            step == run_one_step(other, last.dt)
        IN  /\ step.solve_attempted
            /\ mask_thickness(other, step.root) = NewThickness
            => \A cell \in Cells :
                   \A m \in Adjacent(grid.node_at_cell[cell]) :
                       _get_coeffs_at_link(other, cell, m,
                                           other.fields.hydraulic_potential,
                                           mask_thickness(other, step.root))
                           = StepCoeff(cell, m)

\* C30: the thickness that a step returns is zero at every boundary node,
\* whatever its flag and its thickness before the step, and the root of
\* the implicit update at every interior node.
C30_BoundaryThicknessZero ==
    Returned =>
        \A n \in Nodes :
            last.call.component.fields.sheet_flow_height[n] =
                IF grid.status_at_node[n] > 0 THEN Q(0) ELSE last.call.root[n]

\* a returned step with a boundary node flagged inflow and one flagged
\* outflow, both holding water before the step and a root that is not
\* zero, and an interior node whose returned thickness is not zero
C30_Witness ==
    /\ Returned
    /\ \A flag \in {-1, 1} :
          \E n \in Nodes :
              /\ grid.status_at_node[n] > 0
              /\ last.before.boundary_tags[n] = flag
              /\ last.before.fields.sheet_flow_height[n] # Q(0)
              /\ last.call.root[n] # Q(0)
    /\ \E n \in Nodes :
          /\ grid.status_at_node[n] = 0
          /\ last.call.component.fields.sheet_flow_height[n] # Q(0)

====
